---- MODULE Spec2Model ----
(***************************************************************************)
(* DevBackupBuddy: one-way mirror of a source tree onto a destination     *)
(* tree with MD5-based move detection, verify-before-delete and a         *)
(* persisted destination index (<dst>/.backup_index.json).                *)
(*                                                                         *)
(* Paths are sequences of component names.  A file is a record            *)
(* [content, mtime]; a content is either an ordinary datum (a small       *)
(* natural number) or an index-cache document.                            *)
(***************************************************************************)
EXTENDS Integers, Sequences, FiniteSets, TLC

---------------------------------------------------------------------------
(* Bounds of the model *)

MaxContent == 2
MaxRuns == 2
MaxEdits == 1
MaxFaults == 1
MaxSrcRecs == 3
MaxDstRecs == 2
(* the candidates handed to _find_best_move_candidate *)
MaxCands == 3

(* the indexer's inputs: size bounds 0..MaxBound (MB), mtimes 0..MaxTime *)
MaxBound == 2

MaxTime == 1

(* repeated runs: the clock stops the runs that write the cache at MaxClock *)
MaxClock == 3

---------------------------------------------------------------------------
(* Generic helpers on sequences and functions *)

NONE == "none"

Range(s) == {s[i] : i \in DOMAIN s}

Last(s) == s[Len(s)]

Front(s) == SubSeq(s, 1, Len(s) - 1)

EndsWith(s, t) ==
    /\ Len(t) <= Len(s)
    /\ SubSeq(s, Len(s) - Len(t) + 1, Len(s)) = t

IsPrefix(p, s) == Len(p) <= Len(s) /\ SubSeq(s, 1, Len(p)) = p

(* all orderings of a finite set, as sequences *)
RECURSIVE SeqsOf(_)
SeqsOf(S) ==
    IF S = {} THEN {<<>>}
    ELSE UNION {{<<x>> \o s : s \in SeqsOf(S \ {x})} : x \in S}

---------------------------------------------------------------------------
(* Strings.  Component names are TLA+ strings; where the code looks       *)
(* inside a string (str.endswith, str.lower) the name is spelled out.     *)

NameChars(n) ==
    CASE n = "a.txt"                -> <<"a", ".", "t", "x", "t">>
      [] n = "b.txt"                -> <<"b", ".", "t", "x", "t">>
      [] n = "b2.txt"               -> <<"b", "2", ".", "t", "x", "t">>
      [] n = "c.txt"                -> <<"c", ".", "t", "x", "t">>
      [] n = "sub"                  -> <<"s", "u", "b">>
      [] n = "stale.txt"            -> <<"s", "t", "a", "l", "e", ".", "t", "x", "t">>
      [] n = ".backup_index.json"   -> <<".", "b", "a", "c", "k", "u", "p", "_", "i", "n", "d", "e", "x", ".", "j", "s", "o", "n">>
      [] n = "package.json"         -> <<"p", "a", "c", "k", "a", "g", "e", ".", "j", "s", "o", "n">>
      [] n = ".gitignore"           -> <<".", "g", "i", "t", "i", "g", "n", "o", "r", "e">>
      [] n = "app1"                 -> <<"a", "p", "p", "1">>
      [] n = "app2"                 -> <<"a", "p", "p", "2">>
      [] n = "src"                  -> <<"s", "r", "c">>
      [] n = "public"               -> <<"p", "u", "b", "l", "i", "c">>
      [] n = "mysrc"                -> <<"m", "y", "s", "r", "c">>
      [] n = "App.tsx"              -> <<"A", "p", "p", ".", "t", "s", "x">>
      [] n = "x.log"                -> <<"x", ".", "l", "o", "g">>
      [] n = "X.LOG"                -> <<"X", ".", "L", "O", "G">>
      [] n = "build"                -> <<"b", "u", "i", "l", "d">>
      [] n = "dist"                 -> <<"d", "i", "s", "t">>
      [] n = ".DS_Store"            -> <<".", "D", "S", "_", "S", "t", "o", "r", "e">>

Lower(ch) ==
    CASE ch = "D" -> "d"
      [] ch = "S" -> "s"
      [] ch = "X" -> "x"
      [] ch = "L" -> "l"
      [] ch = "O" -> "o"
      [] ch = "G" -> "g"
      [] OTHER -> ch

LowerSeq(s) == [i \in DOMAIN s |-> Lower(s[i])]

---------------------------------------------------------------------------
(* config.py *)

MAX_FILE_SIZE_MB == 256

EXCLUDE_DIRS ==
    {"node_modules", "dist", "build", "libs", "__pycache__", ".venv", "venv", ".git", ".idea", ".vscode"}
EXCLUDE_EXTENSIONS ==
    {<<".", "t", "m", "p">>,
     <<".", "l", "o", "g">>,
     <<".", "p", "y", "c">>,
     <<".", "p", "y", "o">>,
     <<".", "p", "y", "d">>,
     <<".", "D", "S", "_", "S", "t", "o", "r", "e">>}
PROJECT_TEMPLATES ==
    "nodejs" :> [marker_files |-> {<<"package.json">>},
        always_copy |-> {<<".gitignore">>,
            <<".npmrc">>,
            <<".nvmrc">>,
            <<".node-version">>,
            <<"package-lock.json">>,
            <<"yarn.lock">>,
            <<"pnpm-lock.yaml">>}]
    @@ "typescript" :> [marker_files |-> {<<"tsconfig.json">>},
        always_copy |-> {<<"tsconfig.json">>,
            <<"tsconfig.app.json">>,
            <<"tsconfig.node.json">>,
            <<"tsconfig.build.json">>}]
    @@ "vite" :> [marker_files |-> {<<"vite.config.ts">>, <<"vite.config.js">>},
        always_copy |-> {<<"vite.config.ts">>,
            <<"vite.config.js">>,
            <<"postcss.config.js">>,
            <<"postcss.config.cjs">>,
            <<"tailwind.config.js">>,
            <<"tailwind.config.ts">>,
            <<"index.html">>}]
    @@ "react" :> [marker_files |-> {<<"src", "App.tsx">>, <<"src", "App.jsx">>, <<"src", "main.tsx">>, <<"src", "main.jsx">>},
        always_copy |-> {<<"src", "App.tsx">>,
            <<"src", "App.jsx">>,
            <<"src", "main.tsx">>,
            <<"src", "main.jsx">>,
            <<"src", "index.css">>,
            <<"src", "App.css">>,
            <<"src", "vite-env.d.ts">>}]
    @@ "swc" :> [marker_files |-> {<<".swcrc">>},
        always_copy |-> {<<".swcrc">>}]
    @@ "eslint" :> [marker_files |-> {<<"eslint.config.js">>, <<"eslint.config.mjs">>, <<".eslintrc.js">>, <<".eslintrc.json">>, <<".eslintrc.cjs">>},
        always_copy |-> {<<"eslint.config.js">>,
            <<"eslint.config.mjs">>,
            <<".eslintrc.js">>,
            <<".eslintrc.json">>,
            <<".eslintrc.cjs">>,
            <<".prettierrc">>,
            <<".prettierrc.json">>,
            <<".prettierrc.js">>,
            <<".editorconfig">>}]
    @@ "jest" :> [marker_files |-> {<<"jest.config.js">>, <<"jest.config.ts">>, <<"jest.config.mjs">>},
        always_copy |-> {<<"jest.config.js">>,
            <<"jest.config.ts">>,
            <<"jest.config.mjs">>,
            <<"jest.setup.js">>,
            <<"jest.setup.ts">>}]
    @@ "pwa" :> [marker_files |-> {<<"public", "favicon", "site.webmanifest">>, <<"public", "site.webmanifest">>, <<"public", "manifest.json">>},
        always_copy |-> {<<"public", "favicon", "site.webmanifest">>,
            <<"public", "favicon", "favicon.ico">>,
            <<"public", "favicon", "favicon-16x16.png">>,
            <<"public", "favicon", "favicon-32x32.png">>,
            <<"public", "favicon", "apple-touch-icon.png">>,
            <<"public", "favicon", "android-chrome-192x192.png">>,
            <<"public", "favicon", "android-chrome-512x512.png">>,
            <<"public", "site.webmanifest">>,
            <<"public", "manifest.json">>,
            <<"public", "favicon.ico">>}]
    @@ "shadcn" :> [marker_files |-> {<<"components.json">>, <<"src", "lib", "utils.ts">>},
        always_copy |-> {<<"src", "lib", "utils.ts">>,
            <<"components.json">>,
            <<"src", "components", "ui", "button.tsx">>,
            <<"src", "components", "ui", "input.tsx">>,
            <<"src", "components", "ui", "card.tsx">>}]
    @@ "python" :> [marker_files |-> {<<"pyproject.toml">>, <<"setup.py">>, <<"requirements.txt">>},
        always_copy |-> {<<"pyproject.toml">>,
            <<"setup.py">>,
            <<"setup.cfg">>,
            <<"requirements.txt">>,
            <<"requirements-dev.txt">>,
            <<".python-version">>,
            <<"pytest.ini">>,
            <<"conftest.py">>,
            <<"tox.ini">>}]
    @@ "git" :> [marker_files |-> {<<".git">>},
        always_copy |-> {<<".gitignore">>,
            <<".gitattributes">>,
            <<"LICENSE">>,
            <<"LICENSE.md">>,
            <<"LICENSE.txt">>,
            <<"README.md">>,
            <<"CHANGELOG.md">>}]

ProjectKinds == DOMAIN PROJECT_TEMPLATES

(* file_index.py module constants *)
INDEX_CACHE_FILENAME == ".backup_index.json"

INDEX_VERSION == 1

MegaByte == 1048576

DstSizeCapMB == 999999

---------------------------------------------------------------------------
(* Paths, contents and trees *)

Basename(p) == Last(p)

Dirname(p) == Front(p)

(* the proper ancestors of a path that are not the root *)
ParentDirs(p) == {SubSeq(p, 1, i) : i \in 1..(Len(p) - 1)}

Data(n) == [kind |-> "data", val |-> n, files |-> {}]

(* a file of n arbitrary bytes *)
Blob(n) == [kind |-> "blob", val |-> n, files |-> {}]

(* a file of n bytes that os.stat can read and open() cannot *)
Locked(n) == [kind |-> "locked", val |-> n, files |-> {}]

(* hashlib.md5 over the whole file: a digest names the content it was computed from *)
compute_md5(content) == [md5_of |-> content]

(* st_size of a file holding the content; distinct contents may have the    *)
(* same size (Data(1) and Data(2))                                          *)
SizeOf(content) ==
    IF content.kind = "data" THEN (content.val + 1) \div 2 + 1
    ELSE IF content.kind \in {"blob", "locked"} THEN content.val
    ELSE 100 + 50 * Cardinality(content.files)

File(content, mtime) == [content |-> content, mtime |-> mtime]

EmptyTree == [p \in {} |-> File(Data(0), 0)]

PutFile(files, p, f) == [q \in DOMAIN files \cup {p} |-> IF q = p THEN f ELSE files[q]]

RemoveFile(files, p) == [q \in DOMAIN files \ {p} |-> files[q]]

EmptyDst == [files |-> EmptyTree, dirs |-> {}, exists |-> FALSE]

(* os.walk(top, topdown=True): a directory's own files come first, then each  *)
(* subdirectory's subtree as one block; the order inside a listing is the     *)
(* order of os.scandir, which is arbitrary.                                  *)
IsWalkOrder(s) ==
    /\ \A i, j, k \in DOMAIN s :
          (i < j /\ j < k) =>
             \A d \in ParentDirs(s[i]) :
                (IsPrefix(d, s[k]) => IsPrefix(d, s[j]))
    /\ \A i, j \in DOMAIN s :
          (i < j /\ IsPrefix(Dirname(s[j]), s[i])) => Dirname(s[i]) = Dirname(s[j])

WalkOrders(paths) == {s \in SeqsOf(paths) : IsWalkOrder(s)}

---------------------------------------------------------------------------
(* file_index.py: FileInfo, FileIndex *)

FileInfo(p, md5, mtime, size) ==
    [relative_path |-> p, md5 |-> md5, mtime |-> mtime, size |-> size]

EmptyIndex == [by_path |-> <<>>, by_md5 |-> [m \in {} |-> <<>>]]

PathPos(seq, p) == {i \in DOMAIN seq : seq[i].relative_path = p}

(* FileIndex.add: by_path[path] = info (a dict keeps the position of an      *)
(* existing key); by_md5[md5].append(info)                                   *)
IndexAdd(idx, fi) ==
    [by_path |->
        IF PathPos(idx.by_path, fi.relative_path) = {}
        THEN Append(idx.by_path, fi)
        ELSE [i \in DOMAIN idx.by_path |->
                 IF idx.by_path[i].relative_path = fi.relative_path
                 THEN fi ELSE idx.by_path[i]],
     by_md5 |->
        [m \in DOMAIN idx.by_md5 \cup {fi.md5} |->
            IF m = fi.md5
            THEN (IF m \in DOMAIN idx.by_md5 THEN Append(idx.by_md5[m], fi) ELSE <<fi>>)
            ELSE idx.by_md5[m]]]

(* FileIndex.get_by_path: <<>> stands for None, <<info>> for a hit *)
get_by_path(idx, p) ==
    IF PathPos(idx.by_path, p) = {} THEN <<>>
    ELSE <<idx.by_path[CHOOSE i \in PathPos(idx.by_path, p) : TRUE]>>

get_by_md5(idx, md5) == IF md5 \in DOMAIN idx.by_md5 THEN idx.by_md5[md5] ELSE <<>>

all_files(idx) == idx.by_path

IndexLen(idx) == Len(idx.by_path)

IndexPaths(idx) == {idx.by_path[i].relative_path : i \in DOMAIN idx.by_path}

---------------------------------------------------------------------------
(* file_index.py: should_exclude, build_index, cache *)

(* os.path.getsize(path) / (1024 * 1024) > max_file_size_mb, without the      *)
(* product size-cap * 2^20                                                    *)
SizeMbExceeds(size, max_file_size_mb) ==
    \/ size \div MegaByte > max_file_size_mb
    \/ (size \div MegaByte = max_file_size_mb /\ size % MegaByte > 0)

(* should_exclude(path, ...): the reason of the first rule that rejects, or NONE. *)
(* abs_path is the absolute path of the file (root components, then relative). *)
should_exclude(abs_path, size, excluded_dirs, excluded_extensions, max_file_size_mb) ==
    IF \E i \in DOMAIN abs_path : abs_path[i] \in excluded_dirs
    THEN "Excluded directory"
    ELSE IF \E ext \in excluded_extensions :
               EndsWith(LowerSeq(NameChars(Basename(abs_path))), LowerSeq(ext))
    THEN "Excluded extension"
    ELSE IF SizeMbExceeds(size, max_file_size_mb)
    THEN "File size"
    ELSE NONE

(* `x or DEFAULT` of Python: an empty set or a zero falls back to the default *)
OrDefault(x, empty, default) == IF x = empty THEN default ELSE x

(* the cache entry of a path: <<>> when absent.  The cache argument is <<>>   *)
(* for None, or <<[shape, entries]>> for the JSON value stored under 'files' *)
CacheEntry(cache, p) ==
    IF cache = <<>> THEN <<>>
    ELSE IF \E e \in cache[1].entries : e.path = p
    THEN <<CHOOSE e \in cache[1].entries : e.path = p>>
    ELSE <<>>

(* `if cache and rel_path in cache: cached = cache[rel_path]; cached.get(...)` *)
(* raises TypeError when 'files' is a list that holds the path, and           *)
(* AttributeError when the entry of the path is not an object; the try around *)
(* it catches OSError only                                                    *)
CacheLookupRaises(cache, p) ==
    /\ CacheEntry(cache, p) # <<>>
    /\ cache[1].shape # "object"

(* the loop body with the digest reused whenever the cached size matches *)
IndexOneFile_IgnoresMtime(ctx, acc, p) ==
    LET f == ctx.files[p]
        size == SizeOf(f.content)
        hit == CacheEntry(ctx.cache, p)
        md5 == IF hit # <<>> /\ hit[1].size = size THEN hit[1].md5
               ELSE compute_md5(f.content)
    IN  [acc EXCEPT !.index = IndexAdd(@, FileInfo(p, md5, f.mtime, size))]

(* compute_md5(filepath) raises OSError: open() fails *)
ReadFails(content) == content.kind = "locked"

(* the loop body without the `except (OSError, IOError)` branch, the file    *)
(* indexed with a digest all the same                                        *)
IndexOneFile_IndexesUnreadable(ctx, acc, p) ==
    LET f == ctx.files[p]
        size == SizeOf(f.content)
        reason == should_exclude(ctx.root \o p, size, ctx.excluded_dirs,
                                 ctx.excluded_extensions, ctx.max_file_size_mb)
    IN  IF reason # NONE
        THEN [acc EXCEPT !.skipped = Append(@, [path |-> p, reason |-> reason])]
        ELSE [acc EXCEPT !.index =
                 IndexAdd(@, FileInfo(p, compute_md5(f.content), f.mtime, size))]

(* the body of build_index's loop for one visited file *)
IndexOneFile(ctx, acc, p) ==
    LET f == ctx.files[p]
        size == SizeOf(f.content)
        reason == should_exclude(ctx.root \o p, size, ctx.excluded_dirs,
                                 ctx.excluded_extensions, ctx.max_file_size_mb)
        hit == CacheEntry(ctx.cache, p)
        reuse == hit # <<>> /\ hit[1].size = size /\ hit[1].mtime = f.mtime
        md5 == IF reuse THEN hit[1].md5 ELSE compute_md5(f.content)
    IN  IF reason # NONE
        THEN [acc EXCEPT !.skipped = Append(@, [path |-> p, reason |-> reason])]
        ELSE IF CacheLookupRaises(ctx.cache, p)
        THEN [acc EXCEPT !.raised = TRUE]
        ELSE IF ~reuse /\ ReadFails(f.content)
        THEN [acc EXCEPT !.skipped = Append(@, [path |-> p, reason |-> "Error reading file"])]
        ELSE [acc EXCEPT !.index = IndexAdd(@, FileInfo(p, md5, f.mtime, size))]

RECURSIVE BuildLoop(_, _, _)
BuildLoop(ctx, order, acc) ==
    IF order = <<>> \/ acc.raised THEN acc
    ELSE BuildLoop(ctx, Tail(order), IndexOneFile(ctx, acc, Head(order)))

(* the files os.walk reaches once excluded directory names are pruned *)
Walked(files, excluded_dirs) ==
    {p \in DOMAIN files : \A i \in 1..(Len(p) - 1) : p[i] \notin excluded_dirs}

(* build_index(root, excluded_dirs, excluded_extensions, max_file_size_mb, cache) *)
(* over the files of the tree at root, visited in the given walk order           *)
build_index(root, files, excluded_dirs, excluded_extensions, max_file_size_mb, cache, order) ==
    BuildLoop([root |-> root, files |-> files,
               excluded_dirs |-> OrDefault(excluded_dirs, {}, EXCLUDE_DIRS),
               excluded_extensions |-> OrDefault(excluded_extensions, {}, EXCLUDE_EXTENSIONS),
               max_file_size_mb |-> OrDefault(max_file_size_mb, 0, MAX_FILE_SIZE_MB),
               cache |-> cache],
              order,
              [index |-> EmptyIndex, skipped |-> <<>>, raised |-> FALSE])

(* get_cache_path(dst_root), relative to the destination root *)
get_cache_path == <<INDEX_CACHE_FILENAME>>

(* the document save_index_cache serialises *)
CacheDoc(version, files) == [kind |-> "json", val |-> version, files |-> files]

IndexEntries(idx) ==
    {[path |-> idx.by_path[i].relative_path, md5 |-> idx.by_path[i].md5,
      mtime |-> idx.by_path[i].mtime, size |-> idx.by_path[i].size] : i \in DOMAIN idx.by_path}

(* JSON documents that are not what save_index_cache writes: a top-level     *)
(* array; an object whose 'files' is a list of path names; an object whose   *)
(* 'files' maps path names to scalars.  The paths are those of the entries.  *)
JsonArray == [kind |-> "json_array", val |-> 0, files |-> {}]

FilesListDoc(version, files) == [kind |-> "json_files_list", val |-> version, files |-> files]

ScalarEntriesDoc(version, files) ==
    [kind |-> "json_scalar_entries", val |-> version, files |-> files]

(* the shape of the value a document stores under 'files' *)
FilesShape(content) ==
    IF content.kind = "json_files_list" THEN "list"
    ELSE IF content.kind = "json_scalar_entries" THEN "scalar_entries"
    ELSE "object"

(* load_index_cache raises: json.load gave a value without .get, and         *)
(* AttributeError is not among the caught exceptions                         *)
load_index_cache_raises(content) == content.kind = "json_array"

(* load_index_cache on the content of the cache file: <<>> for None.  Ordinary  *)
(* data is not JSON (json.JSONDecodeError); a document of another version is   *)
(* rejected; otherwise data.get("files") is returned as it is.                  *)
load_index_cache(content) ==
    IF content.kind \in {"data", "blob", "locked"} THEN <<>>
    ELSE IF content.val # INDEX_VERSION THEN <<>>
    ELSE <<[shape |-> FilesShape(content), entries |-> content.files]>>

---------------------------------------------------------------------------
(* sync_engine.py: project classifier *)

(* relative_path.endswith(marker) for a marker that contains '/': a suffix   *)
(* test on the path string, so only the first marker component may match    *)
(* the tail of a longer name                                                *)
PathStrEndsWith(p, marker) ==
    /\ Len(p) >= Len(marker)
    /\ SubSeq(p, Len(p) - Len(marker) + 2, Len(p)) = Tail(marker)
    /\ EndsWith(NameChars(p[Len(p) - Len(marker) + 1]), NameChars(marker[1]))

MarkerMatches(p, marker) ==
    IF Len(marker) > 1 THEN PathStrEndsWith(p, marker)
    ELSE Basename(p) = marker[1]

(* the project root a matching marker registers *)
MarkerRoot(p, marker) ==
    IF Len(p) > Len(marker) THEN SubSeq(p, 1, Len(p) - Len(marker)) ELSE <<>>

(* detect_project_roots: the dict {project_root: set of kinds} as a set of   *)
(* [root, kind] pairs                                                       *)
detect_project_roots(src_index) ==
    {[root |-> MarkerRoot(fi.relative_path, marker), kind |-> kind] :
        <<fi, kind, marker>> \in
            {t \in Range(all_files(src_index)) \X ProjectKinds \X
                   UNION {PROJECT_TEMPLATES[k].marker_files : k \in ProjectKinds} :
                /\ t[3] \in PROJECT_TEMPLATES[t[2]].marker_files
                /\ MarkerMatches(t[1].relative_path, t[3])}}

RootsOf(project_roots) == {r.root : r \in project_roots}

(* build_always_copy_map: {file_path: set of roots} as a set of [path, root] pairs *)
build_always_copy_map(project_roots) ==
    {[path |-> r.root \o filename, root |-> r.root] :
        <<r, filename>> \in
            {t \in project_roots \X
                   UNION {PROJECT_TEMPLATES[k].always_copy : k \in ProjectKinds} :
                t[2] \in PROJECT_TEMPLATES[t[1].kind].always_copy}}

AlwaysCopyPaths(always_copy_map) == {e.path : e \in always_copy_map}

(* get_project_root: the longest proper prefix that is a detected root;     *)
(* <<>> stands for None, <<root>> for a hit                                 *)
get_project_root(file_path, project_roots) ==
    LET hits == {i \in 0..(Len(file_path) - 1) :
                    SubSeq(file_path, 1, i) \in RootsOf(project_roots)}
    IN  IF hits = {} THEN <<>>
        ELSE <<SubSeq(file_path, 1, CHOOSE i \in hits : \A j \in hits : j <= i)>>

is_cross_project_move_AlwaysFalse(src_path, candidate_path, project_roots, always_copy_map) ==
    FALSE

is_cross_project_move(src_path, candidate_path, project_roots, always_copy_map) ==
    /\ src_path \in AlwaysCopyPaths(always_copy_map)
    /\ get_project_root(src_path, project_roots)
          # get_project_root(candidate_path, project_roots)

---------------------------------------------------------------------------
(* sync_engine.py: planner *)

CommonPrefixLen(a, b) ==
    LET n == IF Len(a) < Len(b) THEN Len(a) ELSE Len(b)
        ok == {k \in 0..n : SubSeq(a, 1, k) = SubSeq(b, 1, k)}
    IN  CHOOSE k \in ok : \A j \in ok : j <= k

_path_distance(path1, path2) ==
    LET c == CommonPrefixLen(Dirname(path1), Dirname(path2))
    IN  (Len(path1) - 1 - c) + (Len(path2) - 1 - c)

(* min(seq, key=...): the first element of the sequence with the least key *)
MinByDistance(src_path, cands) ==
    LET d(i) == _path_distance(src_path, cands[i].relative_path)
        best == CHOOSE i \in DOMAIN cands :
                    /\ \A j \in DOMAIN cands : d(i) <= d(j)
                    /\ \A j \in DOMAIN cands : (j < i) => d(j) > d(i)
    IN  cands[best]

RECURSIVE SelectRecs(_, _)
SelectRecs(s, keep) ==
    IF s = <<>> THEN <<>>
    ELSE IF Head(s) \in keep THEN <<Head(s)>> \o SelectRecs(Tail(s), keep)
    ELSE SelectRecs(Tail(s), keep)

(* the candidate search without the same-filename priority *)
_find_best_move_candidate_NearestOnly(src_file, dst_candidates) ==
    IF dst_candidates = <<>> THEN <<>>
    ELSE <<MinByDistance(src_file.relative_path, dst_candidates)>>

(* _find_best_move_candidate: <<>> for None *)
_find_best_move_candidate(src_file, dst_candidates) ==
    IF dst_candidates = <<>> THEN <<>>
    ELSE LET same_name == SelectRecs(dst_candidates,
                 {c \in Range(dst_candidates) :
                     Basename(c.relative_path) = Basename(src_file.relative_path)})
         IN  IF same_name # <<>>
             THEN <<MinByDistance(src_file.relative_path, same_name)>>
             ELSE <<MinByDistance(src_file.relative_path, dst_candidates)>>

SyncItem(action, src_rel_path, dst_rel_path, move_from, reason) ==
    [action |-> action, src_rel_path |-> src_rel_path, dst_rel_path |-> dst_rel_path,
     move_from |-> move_from, reason |-> reason]

PlanSourceFile_BoilerplateConsumes(ctx, acc, src_file) ==
    LET p == src_file.relative_path
        dst_file == get_by_path(ctx.dst_index, p)
        candidates == SelectRecs(get_by_md5(ctx.dst_index, src_file.md5),
                          {c \in Range(get_by_md5(ctx.dst_index, src_file.md5)) :
                              c.relative_path \notin acc.used})
        move_candidate == _find_best_move_candidate(src_file, candidates)
    IN  IF dst_file # <<>>
        THEN IF dst_file[1].md5 = src_file.md5
             THEN [items |-> Append(acc.items, SyncItem("skip", p, p, <<>>, "Up-to-date")),
                   used |-> acc.used \cup {p}]
             ELSE [items |-> Append(acc.items, SyncItem("copy", p, p, <<>>, "Content changed")),
                   used |-> acc.used \cup {p}]
        ELSE IF move_candidate # <<>>
                /\ is_cross_project_move(p, move_candidate[1].relative_path,
                                         ctx.project_roots, ctx.always_copy_map)
        THEN [items |-> Append(acc.items,
                         SyncItem("copy", p, p, <<>>, "Project boilerplate")),
              used |-> acc.used \cup {move_candidate[1].relative_path}]
        ELSE IF move_candidate # <<>>
        THEN [items |-> Append(acc.items,
                         SyncItem("move", p, p, move_candidate[1].relative_path, "Moved")),
              used |-> acc.used \cup {move_candidate[1].relative_path}]
        ELSE [items |-> Append(acc.items, SyncItem("copy", p, p, <<>>, "New file")),
              used |-> acc.used]

(* the loop body that leaves a same-path record out of used_dst_paths *)
PlanSourceFile_NoConsume(ctx, acc, src_file) ==
    LET p == src_file.relative_path
        dst_file == get_by_path(ctx.dst_index, p)
        candidates == SelectRecs(get_by_md5(ctx.dst_index, src_file.md5),
                          {c \in Range(get_by_md5(ctx.dst_index, src_file.md5)) :
                              c.relative_path \notin acc.used})
        move_candidate == _find_best_move_candidate(src_file, candidates)
    IN  IF dst_file # <<>>
        THEN IF dst_file[1].md5 = src_file.md5
             THEN [items |-> Append(acc.items, SyncItem("skip", p, p, <<>>, "Up-to-date")),
                   used |-> acc.used]
             ELSE [items |-> Append(acc.items, SyncItem("copy", p, p, <<>>, "Content changed")),
                   used |-> acc.used]
        ELSE IF move_candidate # <<>>
                /\ is_cross_project_move(p, move_candidate[1].relative_path,
                                         ctx.project_roots, ctx.always_copy_map)
        THEN [items |-> Append(acc.items,
                         SyncItem("copy", p, p, <<>>, "Project boilerplate")),
              used |-> acc.used]
        ELSE IF move_candidate # <<>>
        THEN [items |-> Append(acc.items,
                         SyncItem("move", p, p, move_candidate[1].relative_path, "Moved")),
              used |-> acc.used \cup {move_candidate[1].relative_path}]
        ELSE [items |-> Append(acc.items, SyncItem("copy", p, p, <<>>, "New file")),
              used |-> acc.used]

(* the body of generate_sync_plan's first loop for one source record;        *)
(* acc = [items, used_dst_paths]                                            *)
PlanSourceFile(ctx, acc, src_file) ==
    LET p == src_file.relative_path
        dst_file == get_by_path(ctx.dst_index, p)
        candidates == SelectRecs(get_by_md5(ctx.dst_index, src_file.md5),
                          {c \in Range(get_by_md5(ctx.dst_index, src_file.md5)) :
                              c.relative_path \notin acc.used})
        move_candidate == _find_best_move_candidate(src_file, candidates)
    IN  IF dst_file # <<>>
        THEN IF dst_file[1].md5 = src_file.md5
             THEN [items |-> Append(acc.items, SyncItem("skip", p, p, <<>>, "Up-to-date")),
                   used |-> acc.used \cup {p}]
             ELSE [items |-> Append(acc.items, SyncItem("copy", p, p, <<>>, "Content changed")),
                   used |-> acc.used \cup {p}]
        ELSE IF move_candidate # <<>>
                /\ is_cross_project_move(p, move_candidate[1].relative_path,
                                         ctx.project_roots, ctx.always_copy_map)
        THEN [items |-> Append(acc.items,
                         SyncItem("copy", p, p, <<>>, "Project boilerplate")),
              used |-> acc.used]
        ELSE IF move_candidate # <<>>
        THEN [items |-> Append(acc.items,
                         SyncItem("move", p, p, move_candidate[1].relative_path, "Moved")),
              used |-> acc.used \cup {move_candidate[1].relative_path}]
        ELSE [items |-> Append(acc.items, SyncItem("copy", p, p, <<>>, "New file")),
              used |-> acc.used]

RECURSIVE PlanSourceLoop(_, _, _)
PlanSourceLoop(ctx, files, acc) ==
    IF files = <<>> THEN acc
    ELSE PlanSourceLoop(ctx, Tail(files), PlanSourceFile(ctx, acc, Head(files)))

(* the second loop of generate_sync_plan: the DELETE items, in the order of  *)
(* the destination index                                                    *)
RECURSIVE PlanDeletes_ByContent(_, _, _)
PlanDeletes_ByContent(src_index, dst_files, used) ==
    IF dst_files = <<>> THEN <<>>
    ELSE LET d == Head(dst_files)
             rest == PlanDeletes_ByContent(src_index, Tail(dst_files), used)
         IN  IF get_by_md5(src_index, d.md5) = <<>>
             THEN <<SyncItem("delete", <<>>, d.relative_path, <<>>, "Not in source")>> \o rest
             ELSE rest

(* the second loop without the test of used_dst_paths *)
RECURSIVE PlanDeletes_IgnoresUsed(_, _, _)
PlanDeletes_IgnoresUsed(src_index, dst_files, used) ==
    IF dst_files = <<>> THEN <<>>
    ELSE LET d == Head(dst_files)
             rest == PlanDeletes_IgnoresUsed(src_index, Tail(dst_files), used)
         IN  IF get_by_path(src_index, d.relative_path) = <<>>
             THEN <<SyncItem("delete", <<>>, d.relative_path, <<>>, "Not in source")>> \o rest
             ELSE rest

RECURSIVE PlanDeletes(_, _, _)
PlanDeletes(src_index, dst_files, used) ==
    IF dst_files = <<>> THEN <<>>
    ELSE LET d == Head(dst_files)
             rest == PlanDeletes(src_index, Tail(dst_files), used)
         IN  IF d.relative_path \notin used /\ get_by_path(src_index, d.relative_path) = <<>>
             THEN <<SyncItem("delete", <<>>, d.relative_path, <<>>, "Not in source")>> \o rest
             ELSE rest

(* generate_sync_plan(src_index, dst_index, src_root, dst_root).items *)
generate_sync_plan(src_index, dst_index) ==
    LET project_roots == detect_project_roots(src_index)
        ctx == [dst_index |-> dst_index,
                project_roots |-> project_roots,
                always_copy_map |-> build_always_copy_map(project_roots)]
        acc == PlanSourceLoop(ctx, all_files(src_index), [items |-> <<>>, used |-> {}])
    IN  acc.items \o PlanDeletes(src_index, all_files(dst_index), acc.used)

(* used_dst_paths when generate_sync_plan's first loop has ended *)
used_dst_paths(src_index, dst_index) ==
    LET project_roots == detect_project_roots(src_index)
        ctx == [dst_index |-> dst_index,
                project_roots |-> project_roots,
                always_copy_map |-> build_always_copy_map(project_roots)]
    IN  PlanSourceLoop(ctx, all_files(src_index), [items |-> <<>>, used |-> {}]).used

(* SyncPlan.skips / copies / moves / deletes *)
RECURSIVE ItemsOf(_, _)
ItemsOf(items, action) ==
    IF items = <<>> THEN <<>>
    ELSE IF Head(items).action = action THEN <<Head(items)>> \o ItemsOf(Tail(items), action)
    ELSE ItemsOf(Tail(items), action)

skips(items) == ItemsOf(items, "skip")

copies(items) == ItemsOf(items, "copy")

moves(items) == ItemsOf(items, "move")

deletes(items) == ItemsOf(items, "delete")

---------------------------------------------------------------------------
(* The filesystem operations the executor uses, on the destination tree      *)
(* fs = [files, dirs, exists].  Each returns [ok, fs]; ok = FALSE is an      *)
(* OSError.                                                                  *)

DirSize == 4096

PathExists(fs, p) == p \in DOMAIN fs.files \/ p \in fs.dirs \/ (p = <<>> /\ fs.exists)

IsDir(fs, p) == p \in fs.dirs \/ (p = <<>> /\ fs.exists)

(* os.makedirs(d, exist_ok=True) *)
makedirs(fs, d) ==
    IF \E i \in 1..Len(d) : SubSeq(d, 1, i) \in DOMAIN fs.files
    THEN [ok |-> FALSE, fs |-> fs]
    ELSE [ok |-> TRUE,
          fs |-> [fs EXCEPT !.dirs = @ \cup {SubSeq(d, 1, i) : i \in 1..Len(d)},
                            !.exists = TRUE]]

(* shutil.move(move_from, dst_path) of a file inside the destination tree *)
shutil_move(fs, move_from, dst_path) ==
    LET real_dst == IF IsDir(fs, dst_path) THEN dst_path \o <<Basename(move_from)>>
                    ELSE dst_path
    IN  IF IsDir(fs, dst_path) /\ PathExists(fs, real_dst)
        THEN [ok |-> FALSE, fs |-> fs]
        ELSE IF move_from \notin DOMAIN fs.files \/ ~IsDir(fs, Dirname(real_dst))
        THEN [ok |-> FALSE, fs |-> fs]
        ELSE [ok |-> TRUE,
              fs |-> [fs EXCEPT !.files =
                         PutFile(RemoveFile(fs.files, move_from), real_dst, fs.files[move_from])]]

(* shutil.copy2(src_path, dst_path): content and mtime of the source file *)
shutil_copy2(fs, src_files, src_rel_path, dst_path) ==
    LET real_dst == IF IsDir(fs, dst_path) THEN dst_path \o <<Basename(src_rel_path)>>
                    ELSE dst_path
    IN  IF \/ src_rel_path \notin DOMAIN src_files
           \/ IsDir(fs, real_dst)
           \/ ~IsDir(fs, Dirname(real_dst))
        THEN [ok |-> FALSE, fs |-> fs]
        ELSE [ok |-> TRUE,
              fs |-> [fs EXCEPT !.files = PutFile(fs.files, real_dst, src_files[src_rel_path])]]

(* os.remove(dst_path) *)
os_remove(fs, p) ==
    IF p \in DOMAIN fs.files
    THEN [ok |-> TRUE, fs |-> [fs EXCEPT !.files = RemoveFile(fs.files, p)]]
    ELSE [ok |-> FALSE, fs |-> fs]

(* a write that an I/O error cuts short leaves a truncated file behind *)
Truncated(mtime) == File(Data(0), mtime)

---------------------------------------------------------------------------
(* sync_engine.py: executor, verifier, deletes, sweep *)

(* Phase 1 of execute_sync_plan: os.makedirs for the parent of every move    *)
(* and copy target; not inside a try                                        *)
NeededDirs(items) == {Dirname(it.dst_rel_path) : it \in Range(moves(items) \o copies(items))}

RECURSIVE MakeAll(_, _)
MakeAll(fs, ds) ==
    IF ds = {} THEN [ok |-> TRUE, fs |-> fs]
    ELSE LET d == CHOOSE x \in ds : TRUE
             r == makedirs(fs, d)
         IN  IF r.ok THEN MakeAll(r.fs, ds \ {d}) ELSE [ok |-> FALSE, fs |-> r.fs]

(* a move that unlinks the old name without creating the new one *)
ExecMove_UnlinkOnly(fs, item) == os_remove(fs, item.move_from)

(* one iteration of Phase 2: makedirs + shutil.move inside try/except *)
ExecMove(fs, item) ==
    LET md == makedirs(fs, Dirname(item.dst_rel_path))
    IN  IF md.ok THEN shutil_move(md.fs, item.move_from, item.dst_rel_path) ELSE md

(* one iteration of Phase 3: makedirs + shutil.copy2 inside try/except *)
ExecCopy(fs, src_files, item) ==
    LET md == makedirs(fs, Dirname(item.dst_rel_path))
    IN  IF md.ok THEN shutil_copy2(md.fs, src_files, item.src_rel_path, item.dst_rel_path)
        ELSE md

(* execute_sync_plan(plan, dry_run) as a whole, without injected faults:     *)
(* acc = [fs, moved, copied, errors]                                         *)
RECURSIVE MoveLoop(_, _, _)
MoveLoop(acc, items, dry_run) ==
    IF items = <<>> THEN acc
    ELSE LET r == ExecMove(acc.fs, Head(items))
         IN  MoveLoop(IF dry_run THEN [acc EXCEPT !.moved = @ + 1]
                      ELSE IF r.ok THEN [acc EXCEPT !.fs = r.fs, !.moved = @ + 1]
                      ELSE [acc EXCEPT !.errors = Append(@,
                               [action |-> "move", path |-> Head(items).move_from])],
                      Tail(items), dry_run)

RECURSIVE CopyLoop(_, _, _, _)
CopyLoop(acc, src_files, items, dry_run) ==
    IF items = <<>> THEN acc
    ELSE LET r == ExecCopy(acc.fs, src_files, Head(items))
         IN  CopyLoop(IF dry_run THEN [acc EXCEPT !.copied = @ + 1]
                      ELSE IF r.ok THEN [acc EXCEPT !.fs = r.fs, !.copied = @ + 1]
                      ELSE [acc EXCEPT !.errors = Append(@,
                               [action |-> "copy", path |-> Head(items).src_rel_path])],
                      src_files, Tail(items), dry_run)

(* the three phases; dirs_dry_run is the flag Phase 1 tests, dry_run the     *)
(* flag the loops test                                                       *)
ExecPhases(fs, src_files, items, dirs_dry_run, dry_run) ==
    LET p1 == IF dirs_dry_run THEN [ok |-> TRUE, fs |-> fs]
              ELSE MakeAll(fs, NeededDirs(items))
        start == [fs |-> p1.fs, moved |-> 0, copied |-> 0, errors |-> <<>>]
        done == CopyLoop(MoveLoop(start, moves(items), dry_run),
                         src_files, copies(items), dry_run)
    IN  IF ~p1.ok
        THEN [fs |-> p1.fs, moved |-> 0, copied |-> 0, skipped |-> 0,
              errors |-> <<>>, raised |-> TRUE]
        ELSE [fs |-> done.fs, moved |-> done.moved, copied |-> done.copied,
              skipped |-> Len(skips(items)), errors |-> done.errors, raised |-> FALSE]

(* Phase 1 run even when dry_run is set *)
execute_sync_plan_DryMakesDirs(fs, src_files, items, dry_run) ==
    ExecPhases(fs, src_files, items, FALSE, dry_run)

execute_sync_plan(fs, src_files, items, dry_run) ==
    ExecPhases(fs, src_files, items, dry_run, dry_run)

(* execute_deletes(plan, dry_run): acc = [fs, deleted, errors] *)
RECURSIVE DeleteLoop(_, _, _)
DeleteLoop(acc, items, dry_run) ==
    IF items = <<>> THEN acc
    ELSE LET r == os_remove(acc.fs, Head(items).dst_rel_path)
         IN  DeleteLoop(IF dry_run THEN [acc EXCEPT !.deleted = @ + 1]
                        ELSE IF r.ok THEN [acc EXCEPT !.fs = r.fs, !.deleted = @ + 1]
                        ELSE [acc EXCEPT !.errors = Append(@,
                                 [path |-> Head(items).dst_rel_path])],
                        Tail(items), dry_run)

execute_deletes(fs, items, dry_run) ==
    DeleteLoop([fs |-> fs, deleted |-> 0, errors |-> <<>>], deletes(items), dry_run)

(* the check with the size comparison only *)
VerifyOne_SizeOnly(fs, src_file) ==
    LET p == src_file.relative_path
    IN  IF ~PathExists(fs, p) THEN "File missing in destination"
        ELSE IF p \notin DOMAIN fs.files THEN "Size mismatch"
        ELSE IF SizeOf(fs.files[p].content) # src_file.size THEN "Size mismatch"
        ELSE NONE

(* the check verify_mirror makes for one source record: NONE or the reason *)
VerifyOne(fs, src_file) ==
    LET p == src_file.relative_path
    IN  IF ~PathExists(fs, p) THEN "File missing in destination"
        ELSE IF p \notin DOMAIN fs.files
        THEN (IF DirSize # src_file.size THEN "Size mismatch" ELSE "Error reading destination")
        ELSE IF SizeOf(fs.files[p].content) # src_file.size THEN "Size mismatch"
        ELSE IF compute_md5(fs.files[p].content) # src_file.md5 THEN "MD5 mismatch"
        ELSE NONE

RECURSIVE Mismatches(_, _)
Mismatches(fs, files) ==
    IF files = <<>> THEN <<>>
    ELSE LET r == VerifyOne(fs, Head(files))
         IN  (IF r = NONE THEN <<>>
              ELSE <<[path |-> Head(files).relative_path, reason |-> r]>>)
             \o Mismatches(fs, Tail(files))

(* verify_mirror(src_index, dst_root) *)
verify_mirror(src_index, fs) ==
    LET mm == Mismatches(fs, all_files(src_index))
    IN  [ok |-> (Len(mm) = 0), mismatches |-> mm]

(* cleanup_empty_dirs: os.walk(root, topdown=False) lists a directory before *)
(* it descends, so the dirnames it yields are those of before the sweep; a   *)
(* directory is removed when that listing has no entry at all               *)
EmptyAtScan(fs, d) ==
    /\ ~\E p \in DOMAIN fs.files : Dirname(p) = d
    /\ ~\E e \in fs.dirs : Dirname(e) = d

cleanup_empty_dirs(fs) ==
    [fs EXCEPT !.dirs = {d \in fs.dirs : ~EmptyAtScan(fs, d)}]

SweepRemoved(fs) == Cardinality({d \in fs.dirs : EmptyAtScan(fs, d)})

(* cleanup_empty_dirs(root, dry_run): the tree afterwards and the count *)
cleanup_empty_dirs_dry(fs, dry_run) ==
    [fs |-> IF dry_run THEN fs ELSE cleanup_empty_dirs(fs), removed |-> SweepRemoved(fs)]

---------------------------------------------------------------------------
(* The trees the runs start from *)

SrcRoot == <<"home", "dev">>

DstRoot == <<"mnt", "backup">>

CachePath == get_cache_path

SrcPaths == {<<"a.txt">>, <<"sub", "b.txt">>, CachePath}

EditPaths == SrcPaths \cup {<<"sub", "b2.txt">>}

DstPaths == {<<"a.txt">>, <<"stale.txt">>}

Contents == {Data(n) : n \in 1..MaxContent}

TreesOver(paths, contents) ==
    UNION {[ps -> {File(c, 0) : c \in contents}] : ps \in SUBSET paths}

DirsOf(files) == UNION {ParentDirs(p) : p \in DOMAIN files}

---------------------------------------------------------------------------
(* State *)

VARIABLES
    src,        \* the source tree: path -> [content, mtime]
    dst,        \* the destination tree: [files, dirs, exists]
    clock,      \* the time a written file is stamped with
    pc,         \* position of backup_directory: idle, prepare, moves, copies,
                \* verify, deletes, sweep, save
    run,        \* locals of the run in progress (or of the last run)
    pos,        \* index of the next item of the current phase
    outcome,    \* how the last run ended
    trace,      \* the filesystem operations and verifications of the run
    dst0,       \* the destination tree when the run started
    hist,       \* the user's edit of the source since the first run, and how
                \* the run before the current one ended
    runs, edits, faults

vars == <<src, dst, clock, pc, run, pos, outcome, trace, dst0, hist, runs, edits, faults>>

NoRun ==
    [max_file_size_mb |-> 0, mode |-> "normal", src_index |-> EmptyIndex, dst_index |-> EmptyIndex,
     plan |-> <<>>, moved |-> 0, copied |-> 0, skipped |-> 0, errors |-> <<>>,
     success |-> FALSE, mismatches |-> <<>>, deleted |-> 0, del_errors |-> <<>>,
     removed_dirs |-> 0, skipped_files |-> <<>>, final_dst_index |-> EmptyIndex,
     src_root |-> SrcRoot]

NoHist == [kind |-> "none", from |-> <<>>, to |-> <<>>, prev |-> "none", cache_before |-> <<>>]

Event(op, path, ok) == [op |-> op, path |-> path, ok |-> ok]

Init ==
    /\ src \in TreesOver(SrcPaths, Contents)
    /\ \E files \in TreesOver(DstPaths, {Data(1)}) :
          \E exists \in {TRUE, DOMAIN files # {}} :
             dst = [files |-> files, dirs |-> DirsOf(files), exists |-> exists]
    /\ clock = 1
    /\ pc = "idle"
    /\ run = NoRun
    /\ pos = 1
    /\ outcome = "none"
    /\ trace = <<>>
    /\ dst0 = dst
    /\ hist = NoHist
    /\ runs = 0
    /\ edits = 0
    /\ faults = 0

---------------------------------------------------------------------------
(* backup_utils.py: BackupManager.backup_directory *)

(* the position after execute_sync_plan's current phase *)
AfterPrepare(items) ==
    IF moves(items) # <<>> THEN "moves"
    ELSE IF copies(items) # <<>> THEN "copies"
    ELSE "verify"

AfterMoves(items) == IF copies(items) # <<>> THEN "copies" ELSE "verify"

(* `if not success: ... return`, then `if plan.deletes:` *)
AfterVerify_NoGate(success, items) ==
    IF deletes(items) # <<>> THEN "deletes" ELSE "sweep"

AfterVerify(success, items) ==
    IF ~success THEN "idle"
    ELSE IF deletes(items) # <<>> THEN "deletes"
    ELSE "sweep"

(* BackupManager.__init__: self.max_file_size_mb; 0 also stands for the       *)
(* argument left out (None)                                                  *)
BackupManager_init(max_file_size_mb) == OrDefault(max_file_size_mb, 0, MAX_FILE_SIZE_MB)

(* the destination index of Phase 2: the cache is loaded when the file exists *)
LoadedCache(fs) ==
    IF CachePath \in DOMAIN fs.files THEN load_index_cache(fs.files[CachePath].content)
    ELSE <<>>

(* load_index_cache(cache_path) raises out of backup_directory *)
LoadRaises(fs) ==
    CachePath \in DOMAIN fs.files /\ load_index_cache_raises(fs.files[CachePath].content)

(* main(): sys.exit(1) when an exception reaches it; backup_directory and    *)
(* run_backup return None on every other path                                *)
ExitCode(o) == IF o = "crashed" THEN 1 ELSE 0

(* os.makedirs(dst, exist_ok=True) whatever the mode *)
EnsureDestination_Always(mode, fs) == makedirs(fs, <<>>).fs

(* "Ensure destination exists": not in a dry run, not in verify-only mode *)
EnsureDestination(mode, fs) ==
    IF mode = "normal" THEN makedirs(fs, <<>>).fs ELSE fs

(* Phases 1-3 and the early exits of backup_directory *)
StartRun(mode, src_order, dst_order) ==
    /\ pc = "idle"
    /\ runs < MaxRuns
    /\ src_order \in WalkOrders(Walked(src, EXCLUDE_DIRS))
    /\ LET fs == EnsureDestination(mode, dst)
           src_built == build_index(SrcRoot, src, EXCLUDE_DIRS, EXCLUDE_EXTENSIONS,
                                    BackupManager_init(run.max_file_size_mb),
                                    <<>>, src_order)
           src_index == src_built.index
           Fresh == [NoRun EXCEPT !.max_file_size_mb = run.max_file_size_mb,
                                  !.skipped_files = src_built.skipped]
       IN  /\ dst_order \in WalkOrders(Walked(fs.files, EXCLUDE_DIRS))
           /\ LET built == build_index(DstRoot, fs.files, EXCLUDE_DIRS,
                                    EXCLUDE_EXTENSIONS, DstSizeCapMB,
                                    LoadedCache(fs), dst_order)
                  dst_index == built.index
                  plan == generate_sync_plan(src_index, dst_index)
                  v == verify_mirror(src_index, fs)
              IN  IF mode = "verify_only"
                  THEN /\ run' = [Fresh EXCEPT !.mode = mode, !.src_index = src_index,
                                               !.success = v.ok, !.mismatches = v.mismatches]
                       /\ trace' = <<Event("verify", <<>>, v.ok)>>
                       /\ outcome' = "verify_only"
                       /\ pc' = "idle"
                  ELSE IF LoadRaises(fs) \/ built.raised
                  THEN /\ run' = [Fresh EXCEPT !.mode = mode, !.src_index = src_index]
                       /\ trace' = <<>>
                       /\ outcome' = "crashed"
                       /\ pc' = "idle"
                  ELSE /\ run' = [Fresh EXCEPT !.mode = mode, !.src_index = src_index,
                                               !.dst_index = dst_index, !.plan = plan]
                       /\ trace' = <<>>
                       /\ IF copies(plan) = <<>> /\ moves(plan) = <<>> /\ deletes(plan) = <<>>
                          THEN outcome' = "in_sync" /\ pc' = "idle"
                          ELSE IF mode = "dry_run"
                          THEN outcome' = "dry_run" /\ pc' = "idle"
                          ELSE outcome' = "running" /\ pc' = "prepare"
           /\ dst' = fs
           /\ dst0' = dst
    /\ pos' = 1
    /\ runs' = runs + 1
    /\ hist' = [hist EXCEPT !.prev = outcome]
    /\ UNCHANGED <<src, clock, edits, faults>>

(* execute_sync_plan, Phase 1: create the needed directories *)
PrepareDirs ==
    /\ pc = "prepare"
    /\ LET r == MakeAll(dst, NeededDirs(run.plan))
       IN  /\ dst' = r.fs
           /\ trace' = Append(trace, Event("mkdirs", <<>>, r.ok))
           /\ IF r.ok
              THEN pc' = AfterPrepare(run.plan) /\ outcome' = outcome
              ELSE pc' = "idle" /\ outcome' = "crashed"
    /\ pos' = 1
    /\ UNCHANGED <<src, clock, run, dst0, hist, runs, edits, faults>>

(* a move counted as done although it failed *)
MoveResult_CountsFailure(result, ok, item) ==
    [result EXCEPT !.moved = @ + 1,
                   !.errors = IF ok THEN @
                              ELSE Append(@, [action |-> "move", path |-> item.move_from])]

(* result.moved += 1 after shutil.move, or the error appended in the except branch *)
MoveResult(result, ok, item) ==
    IF ok THEN [result EXCEPT !.moved = @ + 1]
    ELSE [result EXCEPT !.errors = Append(@, [action |-> "move", path |-> item.move_from])]

(* execute_sync_plan, Phase 2: one move *)
MoveStep(fault) ==
    /\ pc = "moves"
    /\ pos <= Len(moves(run.plan))
    /\ fault => faults < MaxFaults
    /\ LET item == moves(run.plan)[pos]
           r == IF fault THEN [ok |-> FALSE, fs |-> dst] ELSE ExecMove(dst, item)
       IN  /\ dst' = r.fs
           /\ run' = MoveResult(run, r.ok, item)
           /\ trace' = Append(trace, Event("move", item.dst_rel_path, r.ok))
    /\ faults' = IF fault THEN faults + 1 ELSE faults
    /\ IF pos = Len(moves(run.plan))
       THEN pc' = AfterMoves(run.plan) /\ pos' = 1
       ELSE pc' = pc /\ pos' = pos + 1
    /\ UNCHANGED <<src, clock, outcome, dst0, hist, runs, edits>>

(* execute_sync_plan, Phase 3: one copy.  A failing copy either changes      *)
(* nothing or leaves a truncated target                                     *)
CopyStep(fault) ==
    /\ pc = "copies"
    /\ pos <= Len(copies(run.plan))
    /\ (fault # "no") => faults < MaxFaults
    /\ LET item == copies(run.plan)[pos]
           good == ExecCopy(dst, src, item)
           r == IF fault = "no" THEN good
                ELSE IF fault = "clean" \/ ~good.ok THEN [ok |-> FALSE, fs |-> dst]
                ELSE [ok |-> FALSE,
                      fs |-> [good.fs EXCEPT !.files =
                                 PutFile(dst.files, item.dst_rel_path, Truncated(clock))]]
       IN  /\ dst' = r.fs
           /\ run' = IF r.ok THEN [run EXCEPT !.copied = @ + 1]
                     ELSE [run EXCEPT !.errors = Append(@,
                              [action |-> "copy", path |-> item.src_rel_path])]
           /\ trace' = Append(trace, Event("copy", item.dst_rel_path, r.ok))
    /\ faults' = IF fault # "no" THEN faults + 1 ELSE faults
    /\ IF pos = Len(copies(run.plan))
       THEN pc' = "verify" /\ pos' = 1
       ELSE pc' = pc /\ pos' = pos + 1
    /\ UNCHANGED <<src, clock, outcome, dst0, hist, runs, edits>>

(* Phase 5: verify_mirror and the gate *)
Verify ==
    /\ pc = "verify"
    /\ LET v == verify_mirror(run.src_index, dst)
       IN  /\ run' = [run EXCEPT !.skipped = Len(skips(run.plan)),
                                 !.success = v.ok, !.mismatches = v.mismatches]
           /\ trace' = Append(trace, Event("verify", <<>>, v.ok))
           /\ pc' = AfterVerify(v.ok, run.plan)
           /\ outcome' = IF AfterVerify(v.ok, run.plan) = "idle"
                         THEN "verify_failed" ELSE outcome
    /\ pos' = 1
    /\ UNCHANGED <<src, dst, clock, dst0, hist, runs, edits, faults>>

(* Phase 6: execute_deletes, one os.remove *)
DeleteStep(fault) ==
    /\ pc = "deletes"
    /\ pos <= Len(deletes(run.plan))
    /\ fault => faults < MaxFaults
    /\ LET item == deletes(run.plan)[pos]
           r == IF fault THEN [ok |-> FALSE, fs |-> dst] ELSE os_remove(dst, item.dst_rel_path)
       IN  /\ dst' = r.fs
           /\ run' = IF r.ok THEN [run EXCEPT !.deleted = @ + 1]
                     ELSE [run EXCEPT !.del_errors = Append(@, [path |-> item.dst_rel_path])]
           /\ trace' = Append(trace, Event("delete", item.dst_rel_path, r.ok))
    /\ faults' = IF fault THEN faults + 1 ELSE faults
    /\ IF pos = Len(deletes(run.plan))
       THEN pc' = "sweep" /\ pos' = 1
       ELSE pc' = pc /\ pos' = pos + 1
    /\ UNCHANGED <<src, clock, outcome, dst0, hist, runs, edits>>

(* Phase 7: cleanup_empty_dirs(dst) *)
Sweep ==
    /\ pc = "sweep"
    /\ dst' = cleanup_empty_dirs(dst)
    /\ run' = [run EXCEPT !.removed_dirs = SweepRemoved(dst)]
    /\ trace' = Append(trace, Event("sweep", <<>>, TRUE))
    /\ pc' = "save"
    /\ UNCHANGED <<src, clock, pos, outcome, dst0, hist, runs, edits, faults>>

(* Phase 8: rebuild the destination index without a cache and               *)
(* save_index_cache(cache_path, final_dst_index): write <cache>.tmp, then    *)
(* os.replace it onto <cache>                                               *)
FinalIndex(fs) ==
    build_index(DstRoot, fs.files, EXCLUDE_DIRS, EXCLUDE_EXTENSIONS, DstSizeCapMB, <<>>,
                CHOOSE o \in WalkOrders(Walked(fs.files, EXCLUDE_DIRS)) : TRUE).index

(* a save whose entries do not carry the records' mtime *)
save_index_cache_DropsMtime(fs, index, now) ==
    [fs EXCEPT !.files =
        PutFile(fs.files, CachePath,
                File(CacheDoc(INDEX_VERSION, {[e EXCEPT !.mtime = 0] : e \in IndexEntries(index)}), now))]

save_index_cache(fs, index, now) ==
    [fs EXCEPT !.files =
        PutFile(fs.files, CachePath, File(CacheDoc(INDEX_VERSION, IndexEntries(index)), now))]

SaveCache ==
    /\ pc = "save"
    /\ dst' = save_index_cache(dst, FinalIndex(dst), clock + 1)
    /\ clock' = clock + 1
    /\ trace' = Append(trace, Event("save", CachePath, TRUE))
    /\ pc' = "idle"
    /\ outcome' = "complete"
    /\ UNCHANGED <<src, run, pos, dst0, hist, runs, edits, faults>>

(* backup_directory as one function, for a run in which no filesystem       *)
(* operation fails for an external reason: the destination tree afterwards   *)
(* and how the run ended.  Each operator is the rest of the run from one     *)
(* phase on.                                                                 *)
RunEnd(fs, how, plan, mismatches) ==
    [fs |-> fs, outcome |-> how, plan |-> plan, mismatches |-> mismatches]

(* Phase 8: rebuild the index, save the cache *)
FromPhase8(plan, fs, now) ==
    RunEnd(save_index_cache(fs, FinalIndex(fs), now), "complete", plan, <<>>)

(* Phase 7: cleanup_empty_dirs on the tree execute_deletes left *)
FromPhase7(plan, d, now) == FromPhase8(plan, cleanup_empty_dirs_dry(d.fs, FALSE).fs, now)

(* the gate on verify_mirror's result v, then Phase 6 *)
FromPhase6(plan, r, v, now) ==
    IF ~v.ok THEN RunEnd(r.fs, "verify_failed", plan, v.mismatches)
    ELSE FromPhase7(plan, execute_deletes(r.fs, plan, FALSE), now)

(* Phase 5 on the result r of execute_sync_plan *)
FromPhase5(src_index, plan, r, now) ==
    IF r.raised THEN RunEnd(r.fs, "crashed", plan, <<>>)
    ELSE FromPhase6(plan, r, verify_mirror(src_index, r.fs), now)

(* `Nothing to do?`, then Phase 4 *)
FromPhase4(src_files, fs, src_index, plan, now) ==
    IF copies(plan) = <<>> /\ moves(plan) = <<>> /\ deletes(plan) = <<>>
    THEN RunEnd(fs, "in_sync", plan, <<>>)
    ELSE FromPhase5(src_index, plan, execute_sync_plan(fs, src_files, plan, FALSE), now)

(* Phase 3 *)
RunPhases(src_files, fs, src_index, dst_index, now) ==
    FromPhase4(src_files, fs, src_index, generate_sync_plan(src_index, dst_index), now)

(* the end of Phase 2: built is build_index's result for the destination *)
FromPhase2(src_files, fs, src_index, built, now) ==
    IF LoadRaises(fs) \/ built.raised THEN RunEnd(fs, "crashed", <<>>, <<>>)
    ELSE RunPhases(src_files, fs, src_index, built.index, now)

(* Phases 1 and 2 on the destination whose root exists *)
FromPhase1(src_files, fs, max_file_size_mb, src_order, dst_order, now) ==
    FromPhase2(src_files, fs,
               build_index(SrcRoot, src_files, EXCLUDE_DIRS, EXCLUDE_EXTENSIONS,
                           BackupManager_init(max_file_size_mb), <<>>, src_order).index,
               build_index(DstRoot, fs.files, EXCLUDE_DIRS, EXCLUDE_EXTENSIONS,
                           DstSizeCapMB, LoadedCache(fs), dst_order),
               now)

(* backup_directory(src, dst) with dry_run and verify_only unset *)
backup_directory(src_files, dst_fs, max_file_size_mb, src_order, dst_order, now) ==
    FromPhase1(src_files, makedirs(dst_fs, <<>>).fs, max_file_size_mb,
               src_order, dst_order, now)

---------------------------------------------------------------------------
(* The user changes the source between two runs *)

RenameSource(p, q) ==
    /\ pc = "idle" /\ runs >= 1 /\ runs < MaxRuns /\ edits < MaxEdits
    /\ p \in DOMAIN src /\ q \in EditPaths \ DOMAIN src
    /\ src' = PutFile(RemoveFile(src, p), q, src[p])
    /\ hist' = [hist EXCEPT !.kind = "rename", !.from = p, !.to = q]
    /\ edits' = edits + 1
    /\ UNCHANGED <<dst, clock, pc, run, pos, outcome, trace, dst0, runs, faults>>

ModifySource(p, c) ==
    /\ pc = "idle" /\ runs >= 1 /\ runs < MaxRuns /\ edits < MaxEdits
    /\ p \in DOMAIN src /\ c \in Contents \ {src[p].content}
    /\ src' = PutFile(src, p, File(c, clock + 1))
    /\ clock' = clock + 1
    /\ hist' = [hist EXCEPT !.kind = "modify", !.from = p, !.to = p]
    /\ edits' = edits + 1
    /\ UNCHANGED <<dst, pc, run, pos, outcome, trace, dst0, runs, faults>>

DeleteSource(p) ==
    /\ pc = "idle" /\ runs >= 1 /\ runs < MaxRuns /\ edits < MaxEdits
    /\ p \in DOMAIN src
    /\ src' = RemoveFile(src, p)
    /\ hist' = [hist EXCEPT !.kind = "delete", !.from = p, !.to = <<>>]
    /\ edits' = edits + 1
    /\ UNCHANGED <<dst, clock, pc, run, pos, outcome, trace, dst0, runs, faults>>

Next ==
    \/ \E so \in WalkOrders(Walked(src, EXCLUDE_DIRS)),
          do \in WalkOrders(Walked(dst.files, EXCLUDE_DIRS)) :
          StartRun("normal", so, do)
    \/ PrepareDirs
    \/ \E fault \in BOOLEAN : MoveStep(fault)
    \/ \E fault \in {"no", "clean", "partial"} : CopyStep(fault)
    \/ Verify
    \/ \E fault \in BOOLEAN : DeleteStep(fault)
    \/ Sweep
    \/ SaveCache
    \/ \E p \in EditPaths, q \in EditPaths : RenameSource(p, q)
    \/ \E p \in EditPaths, c \in Contents : ModifySource(p, c)
    \/ \E p \in EditPaths : DeleteSource(p)

Spec == Init /\ [][Next]_vars

---------------------------------------------------------------------------
(* The planner on its own: generate_sync_plan over every pair of indexes     *)
(* built from records with distinct paths                                   *)

PlanSrcPaths ==
    {<<"a.txt">>, <<"package.json">>, <<"app1", ".gitignore">>,
     <<"app2", ".gitignore">>, <<"app2", "package.json">>}

PlanDstPaths == {<<"a.txt">>, <<"app1", ".gitignore">>, <<"app2", ".gitignore">>}

PlanContents == {Data(1), Data(2)}

RecordOf(p, c) == FileInfo(p, compute_md5(c), 0, SizeOf(c))

(* every sequence of at most n records over the paths, no path twice *)
RecordSeqs(paths, n) ==
    UNION {UNION {{[i \in 1..Len(ps) |-> RecordOf(ps[i], cs[i])] :
                      cs \in [1..Len(ps) -> PlanContents]} : ps \in SeqsOf(chosen)} :
              chosen \in {c \in SUBSET paths : Cardinality(c) <= n}}

RECURSIVE IndexOf(_)
IndexOf(recs) ==
    IF recs = <<>> THEN EmptyIndex
    ELSE IndexAdd(IndexOf(Front(recs)), Last(recs))

InitPlan ==
    /\ \E s \in RecordSeqs(PlanSrcPaths, MaxSrcRecs), d \in RecordSeqs(PlanDstPaths, MaxDstRecs) :
          run = [NoRun EXCEPT !.src_index = IndexOf(s), !.dst_index = IndexOf(d)]
    /\ pc = "planning"
    /\ src = EmptyTree
    /\ dst = EmptyDst
    /\ dst0 = EmptyDst
    /\ clock = 1
    /\ pos = 1
    /\ outcome = "none"
    /\ trace = <<>>
    /\ hist = NoHist
    /\ runs = 0
    /\ edits = 0
    /\ faults = 0

(* Phase 3 of backup_directory on its own *)
PlanOnly ==
    /\ pc = "planning"
    /\ run' = [run EXCEPT !.plan = generate_sync_plan(run.src_index, run.dst_index)]
    /\ pc' = "planned"
    /\ UNCHANGED <<src, dst, clock, pos, outcome, trace, dst0, hist, runs, edits, faults>>

NextPlan == PlanOnly

SpecPlan == InitPlan /\ [][NextPlan]_vars

---------------------------------------------------------------------------
(* Properties *)

PlanItems == Range(run.plan)

Finished == pc = "idle" /\ outcome \notin {"none", "running"}

TraceOps(ops) == {i \in DOMAIN trace : trace[i].op \in ops}

(* C1: safe delete.  Every os.remove of execute_deletes comes, in its run,   *)
(* after a verify_mirror that returned ok, and that verification comes       *)
(* after every Move and Copy of the plan has been attempted.                *)
C1_SafeDelete ==
    \A i \in TraceOps({"delete"}) :
        \E j \in 1..(i - 1) :
            /\ trace[j].op = "verify" /\ trace[j].ok
            /\ Cardinality({k \in TraceOps({"move", "copy"}) : k < j})
                  = Len(moves(run.plan)) + Len(copies(run.plan))
            /\ \A k \in TraceOps({"move", "copy"}) : k < j

(* a run that failed a copy or move, still verified, and went on to delete *)
C1_Witness ==
    /\ \E i \in TraceOps({"delete"}) : trace[i].ok
    /\ \E k \in TraceOps({"move"}) : TRUE
    /\ \E k \in TraceOps({"copy"}) : TRUE

(* C2: a failed verification aborts the run before the deletes, before the   *)
(* sweep and before the cache update: the cache file is as it was before     *)
(* the run.                                                                 *)
CacheFileOf(fs) == IF CachePath \in DOMAIN fs.files THEN <<fs.files[CachePath]>> ELSE <<>>

C2_VerifyFailureAborts ==
    (Finished /\ outcome = "verify_failed") =>
        /\ TraceOps({"delete", "sweep", "save"}) = {}
        /\ CacheFileOf(dst) = CacheFileOf(dst0)

(* C3: mirror equivalence.  After a run that completed through the cache     *)
(* save, with a non-empty source index, verify_mirror on the final          *)
(* destination returns (true, []).                                          *)
C3_MirrorEquivalence ==
    (Finished /\ outcome = "complete" /\ IndexLen(run.src_index) > 0) =>
        verify_mirror(run.src_index, dst) = [ok |-> TRUE, mismatches |-> <<>>]

(* C4: idempotence.  A second run after a completed fault-free run, with no  *)
(* change of a non-empty source, plans no copy, move or delete, skips every  *)
(* source record and writes nothing to the destination.                     *)
C4_Idempotence ==
    (/\ runs = 2 /\ hist.prev = "complete" /\ hist.kind = "none" /\ faults = 0
     /\ IndexLen(run.src_index) > 0) =>
        /\ copies(run.plan) = <<>>
        /\ moves(run.plan) = <<>>
        /\ deletes(run.plan) = <<>>
        /\ Len(skips(run.plan)) = IndexLen(run.src_index)
        /\ dst = dst0

(* C5: the cache file a previous run wrote is no record of the destination   *)
(* index and is neither deleted nor moved by a plan.                         *)
CacheWrittenBefore ==
    CacheFileOf(dst0) # <<>> /\ CacheFileOf(dst0)[1].content.kind = "json"

C5_CacheSelfExcluded ==
    (runs >= 1 /\ CacheWrittenBefore) =>
        /\ CachePath \notin IndexPaths(run.dst_index)
        /\ \A it \in PlanItems :
              /\ it.action = "delete" => it.dst_rel_path # CachePath
              /\ it.action = "move" => it.move_from # CachePath

(* C6: plan soundness, source side.  Every source record is the target of    *)
(* exactly one action of the plan, and that action is a skip, a copy or a    *)
(* move.                                                                    *)
ItemsFor(p) == {i \in DOMAIN run.plan : run.plan[i].dst_rel_path = p}

C6_PlanSoundSource ==
    (pc = "planned") =>
        \A s \in Range(all_files(run.src_index)) :
            /\ Cardinality(ItemsFor(s.relative_path)) = 1
            /\ \A i \in ItemsFor(s.relative_path) :
                  run.plan[i].action \in {"skip", "copy", "move"}

C6_Witness ==
    /\ pc = "planned"
    /\ IndexLen(run.src_index) = 3
    /\ \E it \in PlanItems : it.action = "move"
    /\ \E it \in PlanItems : it.action = "copy" /\ it.reason = "Content changed"
    /\ \E it \in PlanItems : it.action = "copy" /\ it.reason = "New file"

(* C7: plan soundness, destination side.  Every destination record is        *)
(* skipped, overwritten by a copy, vacated by a move or deleted.            *)
C7_PlanSoundDest ==
    (pc = "planned") =>
        \A d \in Range(all_files(run.dst_index)) :
            \E it \in PlanItems :
                \/ it.action \in {"skip", "copy", "delete"} /\ it.dst_rel_path = d.relative_path
                \/ it.action = "move" /\ it.move_from = d.relative_path

C7_Witness ==
    /\ pc = "planned"
    /\ IndexLen(run.dst_index) = 2
    /\ \E it \in PlanItems : it.action = "delete"
    /\ \E it \in PlanItems : it.action = "copy" /\ it.reason = "Project boilerplate"

(* C8: a rename in the source after a completed run is carried out as one    *)
(* Move from the old path to the new one, with no Copy of the new path and   *)
(* no Delete of the old one; afterwards the digest is in the destination     *)
(* once, at the new path.  Stated for a file whose content no other source   *)
(* file shares and for runs without I/O faults.                             *)
SameContentPaths(files, p) == {q \in DOMAIN files : files[q].content = files[p].content}

C8_MovePreservesContent ==
    (/\ runs = 2 /\ hist.prev = "complete" /\ hist.kind = "rename" /\ faults = 0
     /\ SameContentPaths(src, hist.to) = {hist.to}) =>
        /\ Cardinality({i \in DOMAIN run.plan :
                           /\ run.plan[i].action = "move"
                           /\ run.plan[i].dst_rel_path = hist.to}) = 1
        /\ \A it \in PlanItems :
              /\ (it.action = "move" /\ it.dst_rel_path = hist.to) => it.move_from = hist.from
              /\ it.action = "copy" => it.dst_rel_path # hist.to
              /\ it.action = "delete" => it.dst_rel_path # hist.from
        /\ Finished =>
              \A s \in Range(all_files(run.src_index)) :
                  s.relative_path = hist.to =>
                     {q \in DOMAIN dst.files : compute_md5(dst.files[q].content) = s.md5}
                        = {hist.to}

(* C9: no Move relocates an always-copy path across project roots; when      *)
(* every destination record with the content lies in another project, the    *)
(* source path is copied.                                                   *)
C9_NoCrossProjectMove ==
    (pc = "planned") =>
        LET roots == detect_project_roots(run.src_index)
            acp == AlwaysCopyPaths(build_always_copy_map(roots))
        IN  /\ \A it \in PlanItems :
                  (it.action = "move" /\ it.dst_rel_path \in acp) =>
                      get_project_root(it.dst_rel_path, roots)
                         = get_project_root(it.move_from, roots)
            /\ \A s \in Range(all_files(run.src_index)) :
                  (/\ s.relative_path \in acp
                   /\ s.relative_path \notin IndexPaths(run.dst_index)
                   /\ \A d \in Range(all_files(run.dst_index)) :
                         d.md5 = s.md5 =>
                            get_project_root(d.relative_path, roots)
                               # get_project_root(s.relative_path, roots)) =>
                     \E it \in PlanItems :
                         it.action = "copy" /\ it.dst_rel_path = s.relative_path

(* scenario S5: app2/.gitignore is copied although app1/.gitignore holds the same content *)
C9_Witness ==
    /\ pc = "planned"
    /\ \E it \in PlanItems :
          /\ it.action = "copy" /\ it.reason = "Project boilerplate"
          /\ it.dst_rel_path = <<"app2", ".gitignore">>
    /\ <<"app1", ".gitignore">> \in IndexPaths(run.dst_index)

(* C10: cold copy.  With an empty destination index the plan is one Copy     *)
(* per source record and nothing else; after a run without I/O faults the    *)
(* destination holds every source file with the source's content,           *)
(* verification has passed and the cache file is present.                   *)
C10_ColdCopy ==
    (/\ runs >= 1 /\ IndexLen(run.dst_index) = 0 /\ IndexLen(run.src_index) > 0
     /\ faults = 0 /\ pc # "planning") =>
        /\ Len(run.plan) = IndexLen(run.src_index)
        /\ \A s \in Range(all_files(run.src_index)) :
              \E it \in PlanItems : it.action = "copy" /\ it.dst_rel_path = s.relative_path
        /\ Finished =>
              /\ run.success
              /\ CachePath \in DOMAIN dst.files
              /\ \A s \in Range(all_files(run.src_index)) :
                    /\ s.relative_path \in DOMAIN dst.files
                    /\ compute_md5(dst.files[s.relative_path].content) = s.md5
---------------------------------------------------------------------------
(* The indexer on its own: Phases 1 and 2 of backup_directory over source    *)
(* trees with sizes around the size bound and destination trees with every   *)
(* kind of cache file                                                        *)

IdxPaths == {<<"a.txt">>, <<"sub", "b.txt">>}

(* sizes at and next to one megabyte and next to the default bound *)
IdxSizes == {1, MegaByte, MegaByte + 1, MAX_FILE_SIZE_MB * MegaByte + 1}

IdxBounds == 0..MaxBound

IdxTimes == 0..MaxTime

(* files of every size, and files that cannot be opened *)
IdxSrcTrees ==
    UNION {[ps -> {File(Blob(n), 0) : n \in IdxSizes} \cup {File(Locked(1), 0)}] :
              ps \in SUBSET IdxPaths}

IdxDstTrees ==
    UNION {[ps -> {File(c, t) : c \in Contents, t \in IdxTimes}] : ps \in SUBSET IdxPaths}

(* the entries a cache document may hold for one path *)
IdxEntries(p) ==
    {[path |-> p, md5 |-> compute_md5(c), mtime |-> t, size |-> n] :
        c \in Contents, t \in IdxTimes, n \in {SizeOf(x) + d : x \in Contents, d \in {0, 1}}}

(* at most one entry per path, as in a JSON object *)
IdxEntryChoices ==
    {f \in [IdxPaths -> {{}} \cup {{e} : e \in UNION {IdxEntries(p) : p \in IdxPaths}}] :
        \A p \in IdxPaths : \A e \in f[p] : e.path = p}

IdxEntrySets == {UNION {f[p] : p \in IdxPaths} : f \in IdxEntryChoices}

(* for the documents build_index never reads entries of, the paths alone *)
IdxPathEntrySets ==
    {{[path |-> p, md5 |-> compute_md5(Data(1)), mtime |-> 0, size |-> SizeOf(Data(1))] :
         p \in ps} : ps \in SUBSET IdxPaths}

IdxCacheDocs ==
    {Data(1), JsonArray}
    \cup {CacheDoc(INDEX_VERSION, es) : es \in IdxEntrySets}
    \cup {CacheDoc(INDEX_VERSION + 1, es) : es \in IdxPathEntrySets}
    \cup {FilesListDoc(INDEX_VERSION, es) : es \in IdxPathEntrySets}
    \cup {ScalarEntriesDoc(INDEX_VERSION, es) : es \in IdxPathEntrySets}

InitIndex ==
    /\ \/ /\ src \in IdxSrcTrees
          /\ dst = EmptyDst
          /\ \E m \in IdxBounds : run = [NoRun EXCEPT !.max_file_size_mb = m]
       \/ /\ src = EmptyTree
          /\ \E files \in IdxDstTrees :
                \/ dst = [files |-> files, dirs |-> DirsOf(files), exists |-> TRUE]
                \/ \E doc \in IdxCacheDocs, t \in IdxTimes :
                      dst = [files |-> PutFile(files, CachePath, File(doc, t)),
                             dirs |-> DirsOf(files), exists |-> TRUE]
          /\ run = NoRun
    /\ pc = "index_src"
    /\ dst0 = dst
    /\ clock = 1
    /\ pos = 1
    /\ outcome = "none"
    /\ trace = <<>>
    /\ hist = NoHist
    /\ runs = 0
    /\ edits = 0
    /\ faults = 0

(* Phase 1: build_index(src, ..., max_file_size_mb = self.max_file_size_mb) *)
IndexSource(order) ==
    /\ pc = "index_src"
    /\ order \in WalkOrders(Walked(src, EXCLUDE_DIRS))
    /\ LET built == build_index(SrcRoot, src, EXCLUDE_DIRS, EXCLUDE_EXTENSIONS,
                                BackupManager_init(run.max_file_size_mb), <<>>, order)
       IN  run' = [run EXCEPT !.src_index = built.index, !.skipped_files = built.skipped]
    /\ pc' = "index_dst"
    /\ UNCHANGED <<src, dst, clock, pos, outcome, trace, dst0, hist, runs, edits, faults>>

(* Phase 2: load_index_cache when the cache file exists, then build_index(dst) *)
IndexDest(order) ==
    /\ pc = "index_dst"
    /\ order \in WalkOrders(Walked(dst.files, EXCLUDE_DIRS))
    /\ LET built == build_index(DstRoot, dst.files, EXCLUDE_DIRS, EXCLUDE_EXTENSIONS,
                                DstSizeCapMB, LoadedCache(dst), order)
       IN  IF LoadRaises(dst) \/ built.raised
           THEN run' = run /\ outcome' = "crashed"
           ELSE run' = [run EXCEPT !.dst_index = built.index] /\ outcome' = "indexed"
    /\ pc' = "idle"
    /\ UNCHANGED <<src, dst, clock, pos, trace, dst0, hist, runs, edits, faults>>

NextIndex ==
    \/ \E order \in WalkOrders(Walked(src, EXCLUDE_DIRS)) : IndexSource(order)
    \/ \E order \in WalkOrders(Walked(dst.files, EXCLUDE_DIRS)) : IndexDest(order)

SpecIndex == InitIndex /\ [][NextIndex]_vars

---------------------------------------------------------------------------
(* The verifier on its own: backup_directory with verify_only over source    *)
(* and destination trees that agree, differ in content of equal or other     *)
(* size, or hold a directory where the source has a file                     *)

VerPaths == {<<"a.txt">>, <<"sub", "b.txt">>}

VerSrcContents == Contents \cup {Blob(DirSize)}

VerDstContents == Contents \cup {Data(0)}

InitVerify ==
    /\ src \in TreesOver(VerPaths, VerSrcContents)
    /\ \E files \in TreesOver(VerPaths, VerDstContents) :
          \E extra \in SUBSET (VerPaths \ DOMAIN files) :
             dst = [files |-> files, dirs |-> DirsOf(files) \cup extra, exists |-> TRUE]
    /\ clock = 1
    /\ pc = "idle"
    /\ run = NoRun
    /\ pos = 1
    /\ outcome = "none"
    /\ trace = <<>>
    /\ dst0 = dst
    /\ hist = NoHist
    /\ runs = 0
    /\ edits = 0
    /\ faults = 0

NextVerify ==
    \E so \in WalkOrders(Walked(src, EXCLUDE_DIRS)),
       do \in WalkOrders(Walked(dst.files, EXCLUDE_DIRS)) :
       StartRun("verify_only", so, do)

SpecVerify == InitVerify /\ [][NextVerify]_vars

---------------------------------------------------------------------------
(* The executor in a whole run, over trees where a destination file stands   *)
(* in the place of a needed directory, a destination directory stands in     *)
(* the place of a source file, and a file is both moved away and rewritten   *)

ExecSrcPaths == {<<"a.txt">>, <<"c.txt">>, <<"sub">>, <<"sub", "b.txt">>}

ExecDstPaths == {<<"a.txt">>, <<"stale.txt">>, <<"sub">>, <<"sub", "b.txt">>}

(* no file lies below another file *)
IsTree(files) ==
    \A p, q \in DOMAIN files : p # q => ~IsPrefix(p, q)

InitExec ==
    /\ src \in {t \in TreesOver(ExecSrcPaths, Contents) : IsTree(t)}
    /\ \E files \in {t \in TreesOver(ExecDstPaths, {Data(1)}) : IsTree(t)} :
          dst = [files |-> files, dirs |-> DirsOf(files), exists |-> TRUE]
    /\ clock = 1
    /\ pc = "idle"
    /\ run = NoRun
    /\ pos = 1
    /\ outcome = "none"
    /\ trace = <<>>
    /\ dst0 = dst
    /\ hist = NoHist
    /\ runs = 0
    /\ edits = 0
    /\ faults = 0

(* one run *)
NextExec ==
    \/ /\ runs = 0
       /\ \E so \in WalkOrders(Walked(src, EXCLUDE_DIRS)),
             do \in WalkOrders(Walked(dst.files, EXCLUDE_DIRS)) :
             StartRun("normal", so, do)
    \/ PrepareDirs
    \/ \E fault \in BOOLEAN : MoveStep(fault)
    \/ \E fault \in {"no", "clean", "partial"} : CopyStep(fault)
    \/ Verify
    \/ \E fault \in BOOLEAN : DeleteStep(fault)
    \/ Sweep
    \/ SaveCache

SpecExec == InitExec /\ [][NextExec]_vars

---------------------------------------------------------------------------
(* Dry run: backup_directory with dry_run set, and the executor functions    *)
(* called with dry_run set on the plan it made                               *)

DryEmptyDirs == {<<"old">>}

InitDry ==
    /\ src \in {t \in TreesOver(ExecSrcPaths, Contents) : IsTree(t)}
    /\ \E files \in {t \in TreesOver(ExecDstPaths, {Data(1)}) : IsTree(t)} :
          \/ \E extra \in SUBSET DryEmptyDirs :
                dst = [files |-> files, dirs |-> DirsOf(files) \cup extra, exists |-> TRUE]
          \/ files = EmptyTree /\ dst = EmptyDst
    /\ clock = 1
    /\ pc = "idle"
    /\ run = NoRun
    /\ pos = 1
    /\ outcome = "none"
    /\ trace = <<>>
    /\ dst0 = dst
    /\ hist = NoHist
    /\ runs = 0
    /\ edits = 0
    /\ faults = 0

(* execute_sync_plan, execute_deletes and cleanup_empty_dirs with dry_run = True *)
DryExecute ==
    /\ pc = "idle" /\ outcome = "dry_run"
    /\ LET r == execute_sync_plan(dst, src, run.plan, TRUE)
           d == execute_deletes(r.fs, run.plan, TRUE)
           c == cleanup_empty_dirs_dry(d.fs, TRUE)
       IN  /\ dst' = c.fs
           /\ run' = [run EXCEPT !.moved = r.moved, !.copied = r.copied,
                                 !.skipped = r.skipped, !.errors = r.errors,
                                 !.deleted = d.deleted, !.del_errors = d.errors,
                                 !.removed_dirs = c.removed]
    /\ outcome' = "dry_executed"
    /\ UNCHANGED <<src, clock, pc, pos, trace, dst0, hist, runs, edits, faults>>

NextDry ==
    \/ /\ runs = 0
       /\ \E so \in WalkOrders(Walked(src, EXCLUDE_DIRS)),
             do \in WalkOrders(Walked(dst.files, EXCLUDE_DIRS)) :
             StartRun("dry_run", so, do)
    \/ DryExecute

SpecDry == InitDry /\ [][NextDry]_vars

---------------------------------------------------------------------------
(* Properties of the indexer and the cache *)

(* the index of the destination built without a cache *)
NoCacheIndex == FinalIndex(dst)

RecordsOf(idx) == Range(all_files(idx))

(* a cache whose entry for a path stores the true digest whenever its size   *)
(* and mtime equal those on disk                                            *)
ValidCache(fs) ==
    /\ LoadedCache(fs) # <<>>
    /\ LoadedCache(fs)[1].shape = "object"
    /\ \A e \in LoadedCache(fs)[1].entries :
          (/\ e.path \in DOMAIN fs.files
           /\ e.size = SizeOf(fs.files[e.path].content)
           /\ e.mtime = fs.files[e.path].mtime)
          => e.md5 = compute_md5(fs.files[e.path].content)

SizeEligible(p) ==
    should_exclude(SrcRoot \o p, 0, EXCLUDE_DIRS, EXCLUDE_EXTENSIONS, 0) = NONE

(* C12: size bound.  For every configured bound, 0 included, no source file  *)
(* larger than the bound is in the source index, and a file of exactly the   *)
(* bound's size is.                                                          *)
C12_SizeBound ==
    (pc # "index_src" /\ src # EmptyTree)
    => \A p \in DOMAIN src :
          /\ SizeOf(src[p].content) > run.max_file_size_mb * MegaByte
                => p \notin IndexPaths(run.src_index)
          /\ (SizeOf(src[p].content) = run.max_file_size_mb * MegaByte /\ SizeEligible(p))
                => p \in IndexPaths(run.src_index)

(* the same for the bounds the fallback `or` leaves alone *)
C12_SizeBoundNonZero ==
    (pc # "index_src" /\ src # EmptyTree /\ run.max_file_size_mb # 0)
    => \A p \in DOMAIN src :
          /\ SizeOf(src[p].content) > run.max_file_size_mb * MegaByte
                => p \notin IndexPaths(run.src_index)
          /\ (SizeOf(src[p].content) = run.max_file_size_mb * MegaByte /\ SizeEligible(p))
                => p \in IndexPaths(run.src_index)

(* the cache file is absent, is not JSON, is JSON of another shape than the  *)
(* one save_index_cache writes, or carries another version                   *)
CacheInvalid(fs) ==
    \/ CachePath \notin DOMAIN fs.files
    \/ fs.files[CachePath].content.kind # "json"
    \/ fs.files[CachePath].content.val # INDEX_VERSION

(* C16: cache load failures.  With an absent, malformed or wrong-version     *)
(* cache file load_index_cache returns None, nothing is raised, and the      *)
(* destination index is the one built without a cache.                       *)
C16_CacheLoadFailure ==
    (pc = "idle" /\ outcome # "none" /\ CacheInvalid(dst))
    => /\ outcome = "indexed"
       /\ LoadedCache(dst) = <<>>
       /\ RecordsOf(run.dst_index) = RecordsOf(NoCacheIndex)

(* the same for the failures the code handles: no file, not JSON, or an      *)
(* object with another version                                               *)
C16_HandledFailures ==
    (/\ pc = "idle" /\ outcome # "none"
     /\ \/ CachePath \notin DOMAIN dst.files
        \/ dst.files[CachePath].content.kind = "data"
        \/ (/\ dst.files[CachePath].content.kind # "json_array"
            /\ dst.files[CachePath].content.val # INDEX_VERSION))
    => /\ outcome = "indexed"
       /\ LoadedCache(dst) = <<>>
       /\ RecordsOf(run.dst_index) = RecordsOf(NoCacheIndex)

---------------------------------------------------------------------------
(* Properties of the verifier *)

(* the destination holds, at the record's path, a file of the record's size  *)
(* and digest                                                                *)
Passing(fs, s) ==
    /\ s.relative_path \in DOMAIN fs.files
    /\ SizeOf(fs.files[s.relative_path].content) = s.size
    /\ compute_md5(fs.files[s.relative_path].content) = s.md5

MismatchesFor(p) == {i \in DOMAIN run.mismatches : run.mismatches[i].path = p}

(* C13: verifier contract.  verify_mirror returns ok exactly when every      *)
(* source record passes; the mismatch list has one entry for each failing    *)
(* record and none for a passing one, and ok = (the list is empty).          *)
C13_VerifierContract ==
    (outcome = "verify_only")
    => /\ run.success <=> (\A s \in RecordsOf(run.src_index) : Passing(dst, s))
       /\ \A s \in RecordsOf(run.src_index) :
             Cardinality(MismatchesFor(s.relative_path)) = IF Passing(dst, s) THEN 0 ELSE 1
       /\ \A i \in DOMAIN run.mismatches :
             run.mismatches[i].path \in IndexPaths(run.src_index)
       /\ run.success <=> (run.mismatches = <<>>)

(* one record passes and another has the right size but another digest *)
C13_Witness ==
    /\ outcome = "verify_only"
    /\ \E s \in RecordsOf(run.src_index) : Passing(dst, s)
    /\ \E i \in DOMAIN run.mismatches : run.mismatches[i].reason = "MD5 mismatch"
    /\ ~run.success

---------------------------------------------------------------------------
(* Properties of the executor *)

(* the events of execute_sync_plan: those before the run's verification *)
ExecEvents ==
    {i \in DOMAIN trace :
        trace[i].op # "verify" /\ \A j \in 1..i : trace[j].op # "verify"}

(* execute_sync_plan has returned *)
Returned == pc = "verify" \/ TraceOps({"verify"}) # {}

PathsOfOp(op) ==
    LET RECURSIVE Sel(_)
        Sel(i) == IF i > Len(trace) THEN <<>>
                  ELSE (IF i \in ExecEvents /\ trace[i].op = op
                        THEN <<trace[i].path>> ELSE <<>>) \o Sel(i + 1)
    IN  Sel(1)

TargetsOf(items) == [i \in DOMAIN items |-> items[i].dst_rel_path]

(* C14: executor failure isolation.  A failing directory creation, move or   *)
(* copy is recorded in result.errors and never leaves execute_sync_plan;     *)
(* every move and every copy of the plan is still attempted.                 *)
C14_FailureIsolation ==
    /\ outcome # "crashed"
    /\ Returned =>
          /\ PathsOfOp("move") = TargetsOf(moves(run.plan))
          /\ PathsOfOp("copy") = TargetsOf(copies(run.plan))
          /\ Len(run.errors) = Cardinality({i \in ExecEvents : ~trace[i].ok})

(* the same for the failures inside the try blocks: a failing move or copy *)
C14_MoveCopyIsolation ==
    Returned =>
        /\ PathsOfOp("move") = TargetsOf(moves(run.plan))
        /\ PathsOfOp("copy") = TargetsOf(copies(run.plan))
        /\ Len(run.errors) = Cardinality({i \in ExecEvents : ~trace[i].ok})

(* a point of the run before the deletes: inside execute_sync_plan, at the   *)
(* verification, or after a run that ended there                             *)
BeforeDeletes ==
    \/ pc \in {"prepare", "moves", "copies", "verify"}
    \/ (pc = "idle" /\ outcome \in {"crashed", "verify_failed"})

(* the pre-run file at p is where it was, with its content *)
Kept(p) == p \in DOMAIN dst.files /\ dst.files[p].content = dst0.files[p].content

(* the pre-run file at p is at the new path of a Move of the plan *)
Relocated(p) ==
    \E it \in Range(moves(run.plan)) :
        /\ it.move_from = p
        /\ it.dst_rel_path \in DOMAIN dst.files
        /\ dst.files[it.dst_rel_path].content = dst0.files[p].content

(* the pre-run file at p is inside the directory found at the new path *)
RelocatedInto(p) ==
    \E it \in Range(moves(run.plan)) :
        /\ it.move_from = p
        /\ it.dst_rel_path \o <<Basename(p)>> \in DOMAIN dst.files
        /\ dst.files[it.dst_rel_path \o <<Basename(p)>>].content = dst0.files[p].content

CopyTargets == {it.dst_rel_path : it \in Range(copies(run.plan))}

C18_VerifyFailureResult ==
    (pc = "idle" /\ outcome = "verify_failed")
    => (ExitCode(outcome) # 0 /\ dst = dst0)

OpRank(op) == IF op = "mkdirs" THEN 0 ELSE IF op = "move" THEN 1 ELSE 2

(* the plan moves p away and copies the source's p *)
MoveThenCopy(m, c) ==
    /\ m \in Range(moves(run.plan)) /\ c \in Range(copies(run.plan))
    /\ m.move_from = c.dst_rel_path

(* C19: executor phase order.  execute_sync_plan makes the directories,      *)
(* then attempts every Move, then every Copy, whatever the order of the      *)
(* plan's items, and applies no Delete; with Move(p -> q) and Copy(p) in the *)
(* plan and no fault, q then holds the pre-run content of p and p the        *)
(* source's content.                                                         *)
C19_PhaseOrder ==
    /\ \A i, j \in ExecEvents :
          i < j => (/\ trace[i].op \in {"mkdirs", "move", "copy"}
                    /\ trace[j].op \in {"mkdirs", "move", "copy"}
                    /\ OpRank(trace[i].op) <= OpRank(trace[j].op))
    /\ \A i \in ExecEvents : trace[i].op # "delete"
    /\ Returned =>
          /\ PathsOfOp("mkdirs") = <<<<>>>>
          /\ PathsOfOp("move") = TargetsOf(moves(run.plan))
          /\ PathsOfOp("copy") = TargetsOf(copies(run.plan))
    /\ (pc = "verify" /\ \A i \in ExecEvents : trace[i].ok) =>
          \A m, c \in Range(run.plan) :
             MoveThenCopy(m, c) =>
                /\ m.dst_rel_path \in DOMAIN dst.files
                /\ dst.files[m.dst_rel_path].content = dst0.files[m.move_from].content
                /\ c.dst_rel_path \in DOMAIN dst.files
                /\ dst.files[c.dst_rel_path].content = src[c.src_rel_path].content

(* the same with the last part kept to Moves whose new path is not an       *)
(* existing directory of the destination                                     *)
C19_PhaseOrderFileTargets ==
    /\ \A i, j \in ExecEvents :
          i < j => (/\ trace[i].op \in {"mkdirs", "move", "copy"}
                    /\ trace[j].op \in {"mkdirs", "move", "copy"}
                    /\ OpRank(trace[i].op) <= OpRank(trace[j].op))
    /\ \A i \in ExecEvents : trace[i].op # "delete"
    /\ Returned =>
          /\ PathsOfOp("mkdirs") = <<<<>>>>
          /\ PathsOfOp("move") = TargetsOf(moves(run.plan))
          /\ PathsOfOp("copy") = TargetsOf(copies(run.plan))
    /\ (pc = "verify" /\ \A i \in ExecEvents : trace[i].ok) =>
          \A m, c \in Range(run.plan) :
             (MoveThenCopy(m, c) /\ m.dst_rel_path \notin dst0.dirs) =>
                /\ m.dst_rel_path \in DOMAIN dst.files
                /\ dst.files[m.dst_rel_path].content = dst0.files[m.move_from].content
                /\ c.dst_rel_path \in DOMAIN dst.files
                /\ dst.files[c.dst_rel_path].content = src[c.src_rel_path].content

(* a fault-free execution of a Move of p and a Copy onto p, new path a file *)
C19_FileTargetCase ==
    /\ pc = "verify" /\ \A i \in ExecEvents : trace[i].ok
    /\ \E m, c \in Range(run.plan) : MoveThenCopy(m, c) /\ m.dst_rel_path \notin dst0.dirs

---------------------------------------------------------------------------
(* Properties of the planner *)

DstRecordAt(p) == get_by_path(run.dst_index, p)

(* C20: same-path decision.  A source record whose path is in the            *)
(* destination index gets a Skip when the digests agree and a Copy with      *)
(* reason 'Content changed' when they differ, never a Move, and its path is  *)
(* consumed: it is in used_dst_paths and no later Move takes it.  When the   *)
(* destination has exactly the source's paths and digests the plan is        *)
(* exactly |S| Skips.                                                        *)
C20_SamePathDecision ==
    (pc = "planned") =>
        /\ \A s \in RecordsOf(run.src_index) :
              DstRecordAt(s.relative_path) # <<>> =>
                 /\ \A i \in ItemsFor(s.relative_path) :
                       /\ run.plan[i].action # "move"
                       /\ IF DstRecordAt(s.relative_path)[1].md5 = s.md5
                          THEN run.plan[i].action = "skip"
                          ELSE /\ run.plan[i].action = "copy"
                               /\ run.plan[i].reason = "Content changed"
                       /\ \A j \in DOMAIN run.plan :
                             (j > i /\ run.plan[j].action = "move")
                             => run.plan[j].move_from # s.relative_path
                 /\ ItemsFor(s.relative_path) # {}
                 /\ s.relative_path \in used_dst_paths(run.src_index, run.dst_index)
        /\ ({[p |-> r.relative_path, m |-> r.md5] : r \in RecordsOf(run.src_index)}
              = {[p |-> r.relative_path, m |-> r.md5] : r \in RecordsOf(run.dst_index)})
           => /\ Len(run.plan) = IndexLen(run.src_index)
              /\ \A it \in PlanItems : it.action = "skip"

(* a skipped record, a record copied for changed content, and a later        *)
(* record with the skipped one's digest that is copied as new, not moved     *)
C20_Witness ==
    /\ pc = "planned"
    /\ \E it \in PlanItems : it.action = "copy" /\ it.reason = "Content changed"
    /\ \E i, j \in DOMAIN run.plan :
          /\ i < j
          /\ run.plan[i].action = "skip"
          /\ run.plan[j].action = "copy" /\ run.plan[j].reason = "New file"
          /\ get_by_path(run.src_index, run.plan[i].dst_rel_path)[1].md5
                = get_by_path(run.src_index, run.plan[j].dst_rel_path)[1].md5

---------------------------------------------------------------------------
(* Properties of dry-run mode *)

(* C17: dry-run purity.  With dry_run set the executor functions count       *)
(* every move, copy and delete of the plan and write nothing, and            *)
(* backup_directory leaves the destination tree and the cache file as they   *)
(* were, the destination root not even created.                              *)
C17_DryRunPurity ==
    /\ (outcome = "dry_executed") =>
          /\ run.moved = Len(moves(run.plan))
          /\ run.copied = Len(copies(run.plan))
          /\ run.deleted = Len(deletes(run.plan))
          /\ run.removed_dirs = SweepRemoved(dst0)
          /\ run.errors = <<>> /\ run.del_errors = <<>>
    /\ (run.mode = "dry_run" /\ outcome # "none") =>
          /\ dst = dst0
          /\ CacheFileOf(dst) = CacheFileOf(dst0)

(* a dry run over a plan with a move, a copy and a delete, whose targets     *)
(* need a directory the destination lacks, beside an empty directory         *)
C17_Witness ==
    /\ outcome = "dry_executed"
    /\ run.moved > 0 /\ run.copied > 0 /\ run.deleted > 0 /\ run.removed_dirs > 0
    /\ NeededDirs(run.plan) \ (dst0.dirs \cup {<<>>}) # {}
    /\ dst = dst0

(* a dry run against a destination root that does not exist *)
C17_NoRootCase ==
    /\ run.mode = "dry_run" /\ outcome \in {"dry_run", "dry_executed"}
    /\ ~dst0.exists /\ ~dst.exists

(* the executor functions without dry_run give, when no operation fails,     *)
(* the tree the stepwise run reaches                                         *)
ExecAgreesWithSteps ==
    (pc = "verify" /\ \A i \in ExecEvents : trace[i].ok)
    => execute_sync_plan(makedirs(dst0, <<>>).fs, src, run.plan, FALSE).fs = dst

---------------------------------------------------------------------------
(* Repeated runs of backup_directory with the source left alone, nothing     *)
(* else writing to the destination and no I/O fault: each step is one whole  *)
(* run.  A run that writes the cache advances the clock; runs holds the      *)
(* parity of the number of runs made.                                        *)

ConvPaths == {<<"a.txt">>, <<"sub">>, <<"sub", "b.txt">>}

InitConverge ==
    /\ src \in {t \in TreesOver(ConvPaths, Contents) : IsTree(t)}
    /\ \E files \in {t \in TreesOver(ConvPaths, {Data(1)}) : IsTree(t)} :
          dst = [files |-> files, dirs |-> DirsOf(files), exists |-> TRUE]
    /\ clock = 1
    /\ pc = "idle"
    /\ run = NoRun
    /\ pos = 1
    /\ outcome = "none"
    /\ trace = <<>>
    /\ dst0 = dst
    /\ hist = NoHist
    /\ runs = 0
    /\ edits = 0
    /\ faults = 0

(* one run, over the listing orders os.walk gives for the two trees *)
WholeRun(src_order, dst_order) ==
    /\ pc = "idle"
    /\ clock < MaxClock
    /\ LET r == backup_directory(src, dst, run.max_file_size_mb, src_order, dst_order,
                                 clock + 1)
       IN  /\ dst' = r.fs
           /\ outcome' = r.outcome
           /\ clock' = IF r.outcome = "complete" THEN clock + 1 ELSE clock
           /\ run' = [NoRun EXCEPT !.mismatches = r.mismatches,
                                   !.success = (r.outcome = "complete")]
    /\ hist' = [hist EXCEPT !.prev = outcome]
    /\ runs' = 1 - runs
    /\ UNCHANGED <<src, pc, pos, trace, dst0, edits, faults>>

NextConverge ==
    \E so \in WalkOrders(Walked(src, EXCLUDE_DIRS)),
       do \in WalkOrders(Walked(dst.files, EXCLUDE_DIRS)) :
       WholeRun(so, do)

SpecConverge == InitConverge /\ [][NextConverge]_vars

(* a step is a run: the only steps of NextConverge are runs, and each run    *)
(* flips the parity                                                          *)
RunMade == pc = "idle" /\ clock < MaxClock /\ runs' = 1 - runs

(* the program is started again after every run: while a run can be made,   *)
(* one is made                                                               *)
FairConverge == SpecConverge /\ WF_runs(RunMade)


---------------------------------------------------------------------------
(* One run over source trees that hold files the indexer leaves out: a file  *)
(* that cannot be opened and a file above the size cap of the source         *)

OmitPaths == {<<"a.txt">>, <<"sub", "b.txt">>}

OverCap == Blob(MAX_FILE_SIZE_MB * MegaByte + 1)

OmitSrcContents == {Data(1), Locked(1), OverCap}

InitOmit ==
    /\ src \in TreesOver(OmitPaths, OmitSrcContents)
    /\ \E files \in TreesOver(OmitPaths, {Data(1), Data(2)}) :
          dst = [files |-> files, dirs |-> DirsOf(files), exists |-> TRUE]
    /\ clock = 1
    /\ pc = "idle"
    /\ run = NoRun
    /\ pos = 1
    /\ outcome = "none"
    /\ trace = <<>>
    /\ dst0 = dst
    /\ hist = NoHist
    /\ runs = 0
    /\ edits = 0
    /\ faults = 0

SpecOmit == InitOmit /\ [][NextExec]_vars

---------------------------------------------------------------------------
(* One run whose plan holds several Moves: the destination has a directory   *)
(* where the source has a file, and files of one name in two directories     *)

MovesSrcPaths == {<<"c.txt">>, <<"sub">>}

MovesDstPaths == {<<"a.txt">>, <<"stale.txt">>, <<"sub", "a.txt">>}

InitMoves ==
    /\ src \in TreesOver(MovesSrcPaths, Contents)
    /\ \E files \in TreesOver(MovesDstPaths, Contents) :
          dst = [files |-> files, dirs |-> DirsOf(files), exists |-> TRUE]
    /\ clock = 1
    /\ pc = "idle"
    /\ run = NoRun
    /\ pos = 1
    /\ outcome = "none"
    /\ trace = <<>>
    /\ dst0 = dst
    /\ hist = NoHist
    /\ runs = 0
    /\ edits = 0
    /\ faults = 0

SpecMoves == InitMoves /\ [][NextExec]_vars

---------------------------------------------------------------------------
(* The candidate search on its own: _find_best_move_candidate over one       *)
(* source record and every list of destination records with its digest      *)

CandSrcPaths == {<<"f.txt">>, <<"x", "f.txt">>, <<"x", "y", "f.txt">>}

CandDstPaths ==
    {<<"f.txt">>, <<"g.txt">>, <<"x", "f.txt">>, <<"x", "g.txt">>, <<"z", "f.txt">>,
     <<"x", "y", "g.txt">>, <<"z", "y", "f.txt">>}

(* every list of at most n records of one content over the paths, no path twice *)
CandidateSeqs(paths, n) ==
    UNION {{[i \in 1..Len(ps) |-> RecordOf(ps[i], Data(1))] : ps \in SeqsOf(chosen)} :
              chosen \in {c \in SUBSET paths : Cardinality(c) <= n}}

InitCand ==
    /\ \E p \in CandSrcPaths, d \in CandidateSeqs(CandDstPaths, MaxCands) :
          run = [NoRun EXCEPT !.src_index = IndexOf(<<RecordOf(p, Data(1))>>),
                              !.dst_index = IndexOf(d)]
    /\ pc = "choosing"
    /\ src = EmptyTree
    /\ dst = EmptyDst
    /\ dst0 = EmptyDst
    /\ clock = 1
    /\ pos = 1
    /\ outcome = "none"
    /\ trace = <<>>
    /\ hist = NoHist
    /\ runs = 0
    /\ edits = 0
    /\ faults = 0

(* generate_sync_plan's search for a Move of one source record: the records  *)
(* with its digest, none consumed yet, and the Move from the best of them    *)
ChooseCandidate ==
    /\ pc = "choosing"
    /\ LET src_file == all_files(run.src_index)[1]
           p == src_file.relative_path
           candidates == get_by_md5(run.dst_index, src_file.md5)
           move_candidate == _find_best_move_candidate(src_file, candidates)
       IN  run' = [run EXCEPT !.plan =
                      IF move_candidate = <<>> THEN <<>>
                      ELSE <<SyncItem("move", p, p, move_candidate[1].relative_path, "Moved")>>]
    /\ pc' = "chosen"
    /\ UNCHANGED <<src, dst, clock, pos, outcome, trace, dst0, hist, runs, edits, faults>>

NextCand == ChooseCandidate

SpecCand == InitCand /\ [][NextCand]_vars

---------------------------------------------------------------------------
(* One run with Phase 8 in steps: save_index_cache opens <cache>.tmp,        *)
(* json.dump writes the document into it, os.replace renames it onto         *)
(* <cache>; the process can die between any two of them                      *)

(* temp_path = cache_path + ".tmp" *)
TmpPath == <<".backup_index.json.tmp">>

(* the file the document is written into *)
SaveTarget_InPlace == CachePath

SaveTarget == TmpPath

(* the file at a path, <<>> when there is none *)
FileAt(fs, p) == IF p \in DOMAIN fs.files THEN <<fs.files[p]>> ELSE <<>>

(* the document save_index_cache builds from an index *)
NewDocument(index) == CacheDoc(INDEX_VERSION, IndexEntries(index))

SaveSrcPaths == {<<"a.txt">>, <<"sub", "b.txt">>}

SaveDstPaths == {<<"a.txt">>, <<"stale.txt">>}

(* the destination of an earlier run: files, and the cache that run saved *)
InitSave ==
    /\ src \in TreesOver(SaveSrcPaths, Contents)
    /\ \E files \in TreesOver(SaveDstPaths, {Data(1)}), cached \in BOOLEAN :
          LET fs == [files |-> files, dirs |-> DirsOf(files), exists |-> TRUE]
          IN  dst = IF cached THEN save_index_cache(fs, FinalIndex(fs), 1) ELSE fs
    /\ clock = 1
    /\ pc = "idle"
    /\ run = NoRun
    /\ pos = 1
    /\ outcome = "none"
    /\ trace = <<>>
    /\ dst0 = dst
    /\ hist = NoHist
    /\ runs = 0
    /\ edits = 0
    /\ faults = 0

(* Phase 8 up to open(temp_path, "w"): the index is rebuilt, the document    *)
(* is made, the file is created empty                                        *)
SaveOpenTmp ==
    /\ pc = "save"
    /\ LET final_dst_index == FinalIndex(dst)
       IN  /\ run' = [run EXCEPT !.final_dst_index = final_dst_index]
           /\ dst' = [dst EXCEPT !.files =
                  PutFile(@, SaveTarget, Truncated(clock + 1))]
    /\ hist' = [hist EXCEPT !.kind = "save", !.cache_before = FileAt(dst, CachePath)]
    /\ clock' = clock + 1
    /\ pc' = "save_dump"
    /\ UNCHANGED <<src, pos, outcome, trace, dst0, runs, edits, faults>>

(* json.dump and the end of the with block: the whole document is in the file *)
SaveDump ==
    /\ pc = "save_dump"
    /\ dst' = [dst EXCEPT !.files =
           PutFile(@, SaveTarget, File(NewDocument(run.final_dst_index), clock))]
    /\ pc' = "save_replace"
    /\ UNCHANGED <<src, clock, run, pos, outcome, trace, dst0, hist, runs, edits, faults>>

(* os.replace(temp_path, cache_path), and the run returns *)
SaveReplace ==
    /\ pc = "save_replace"
    /\ dst' = [dst EXCEPT !.files =
           PutFile(RemoveFile(@, SaveTarget), CachePath, dst.files[SaveTarget])]
    /\ trace' = Append(trace, Event("save", CachePath, TRUE))
    /\ pc' = "idle"
    /\ outcome' = "complete"
    /\ UNCHANGED <<src, clock, run, pos, dst0, hist, runs, edits, faults>>

(* the process dies during the save (power loss, kill, a full disk raising   *)
(* in json.dump): what is on disk stays as it is                             *)
SaveCrash ==
    /\ pc \in {"save_dump", "save_replace"}
    /\ pc' = "idle"
    /\ outcome' = "crashed"
    /\ UNCHANGED <<src, dst, clock, run, pos, trace, dst0, hist, runs, edits, faults>>

NextSave ==
    \/ /\ runs = 0
       /\ \E so \in WalkOrders(Walked(src, EXCLUDE_DIRS)),
             do \in WalkOrders(Walked(dst.files, EXCLUDE_DIRS)) :
             StartRun("normal", so, do)
    \/ PrepareDirs
    \/ \E fault \in BOOLEAN : MoveStep(fault)
    \/ \E fault \in {"no", "clean", "partial"} : CopyStep(fault)
    \/ Verify
    \/ \E fault \in BOOLEAN : DeleteStep(fault)
    \/ Sweep
    \/ SaveOpenTmp
    \/ SaveDump
    \/ SaveReplace
    \/ SaveCrash

SpecSave == InitSave /\ [][NextSave]_vars

---------------------------------------------------------------------------
(* The cache round trip on its own: an index is saved into the tree it       *)
(* describes, and Phase 2 of the next run loads the file and indexes the     *)
(* tree with it                                                              *)

(* a path without a file, or a file and a record of it: the record's digest  *)
(* is any digest, its mtime the file's or a later one, its size the file's   *)
RoundChoices(p) ==
    {<<>>} \cup
    {<<[path |-> p, file |-> File(c, t),
        rec |-> FileInfo(p, compute_md5(m), t + late, SizeOf(c))]>> :
         c \in Contents, t \in IdxTimes, m \in Contents, late \in {0, 1}}

(* a file under the cache's name that the index has a record of *)
RoundCacheChoices ==
    {<<>>, <<[path |-> CachePath, file |-> File(Data(1), 0),
              rec |-> FileInfo(CachePath, compute_md5(Data(1)), 0, SizeOf(Data(1)))]>>}

InitRound ==
    /\ \E a \in RoundChoices(<<"a.txt">>), b \in RoundChoices(<<"sub", "b.txt">>),
          k \in RoundCacheChoices :
          LET chosen == Range(a) \cup Range(b) \cup Range(k)
              files == [p \in {x.path : x \in chosen} |->
                           (CHOOSE x \in chosen : x.path = p).file]
          IN  /\ dst = [files |-> files, dirs |-> DirsOf(files), exists |-> TRUE]
              /\ \E recs \in SeqsOf({x.rec : x \in chosen}) :
                    run = [NoRun EXCEPT !.final_dst_index = IndexOf(recs)]
    /\ src = EmptyTree
    /\ pc = "round_save"
    /\ dst0 = dst
    /\ clock = 1
    /\ pos = 1
    /\ outcome = "none"
    /\ trace = <<>>
    /\ hist = NoHist
    /\ runs = 0
    /\ edits = 0
    /\ faults = 0

(* save_index_cache(cache_path, final_dst_index), the last step of a run *)
SaveIndex ==
    /\ pc = "round_save"
    /\ dst' = save_index_cache(dst, run.final_dst_index, clock + 1)
    /\ clock' = clock + 1
    /\ pc' = "index_dst"
    /\ UNCHANGED <<src, run, pos, outcome, trace, dst0, hist, runs, edits, faults>>

NextRound ==
    \/ SaveIndex
    \/ \E order \in WalkOrders(Walked(dst.files, EXCLUDE_DIRS)) : IndexDest(order)

SpecRound == InitRound /\ [][NextRound]_vars
---------------------------------------------------------------------------
(* Properties of the planner's Delete and Move items *)

DeletePaths == {it.dst_rel_path : it \in {x \in PlanItems : x.action = "delete"}}

MoveFroms == {it.move_from : it \in {x \in PlanItems : x.action = "move"}}

SkipPaths == {it.dst_rel_path : it \in {x \in PlanItems : x.action = "skip"}}

(* C21: delete rule.  The plan holds Delete(p) exactly for the paths p of    *)
(* the destination index that are not paths of the source index and are not  *)
(* the move_from of a Move, once each; no Delete names a source path.        *)
C21_DeleteRule ==
    (pc = "planned") =>
        /\ DeletePaths = {p \in IndexPaths(run.dst_index) :
                             /\ p \notin IndexPaths(run.src_index)
                             /\ p \notin MoveFroms}
        /\ DeletePaths \cap IndexPaths(run.src_index) = {}
        /\ Len(deletes(run.plan)) = Cardinality(DeletePaths)

(* a plan with a Delete beside a Move whose move_from is absent from the     *)
(* source and is therefore kept out of the deletes                           *)
C21_Witness ==
    /\ pc = "planned"
    /\ DeletePaths # {}
    /\ \E p \in MoveFroms : p \notin IndexPaths(run.src_index)

(* C22: no plan holds both a Move whose move_from is p and a Skip of p.      *)
C22_NoMoveFromSkipped ==
    (pc = "planned") => MoveFroms \cap SkipPaths = {}

(* what does hold: a Move never takes a path an earlier item has skipped *)
C22_NoMoveAfterSkip ==
    (pc = "planned") =>
        \A i, j \in DOMAIN run.plan :
            (i < j /\ run.plan[i].action = "skip" /\ run.plan[j].action = "move")
            => run.plan[j].move_from # run.plan[i].dst_rel_path

---------------------------------------------------------------------------
(* Properties of whole runs without I/O faults *)

(* C23: in a run in which no filesystem operation fails for an external      *)
(* reason, Phase 5 is reached and verify_mirror returns ok.                  *)
C23_FaultFreeMirror ==
    (faults = 0 /\ run.mode = "normal") =>
        /\ outcome # "crashed"
        /\ \A i \in TraceOps({"verify"}) : trace[i].ok

(* the same for source and destination trees in which no path is a file on   *)
(* one side and a directory on the other, and no two source files share      *)
(* their content                                                             *)
NoKindClash ==
    /\ \A p \in DOMAIN src : p \notin dst0.dirs
    /\ \A p \in DOMAIN dst0.files : p \notin DirsOf(src)

DistinctContents ==
    \A p, q \in DOMAIN src : src[p].content = src[q].content => p = q

C23_FaultFreePlainTrees ==
    (faults = 0 /\ run.mode = "normal" /\ NoKindClash /\ DistinctContents) =>
        /\ outcome # "crashed"
        /\ \A i \in TraceOps({"verify"}) : trace[i].ok

(* two source files with one content, the destination holding the one that   *)
(* is indexed later: it is moved away, then skipped, and verification fails  *)
C23_DuplicateCase ==
    /\ faults = 0 /\ NoKindClash /\ outcome = "verify_failed"
    /\ MoveFroms \cap SkipPaths # {}

(* the last run passed its verification, or found nothing to do *)
RunPassed == outcome \in {"complete", "in_sync"}

(* C24: convergence.  When backup_directory is run again and again, some     *)
(* run passes verification and from then on every run passes.               *)
C24_Convergence == <>[]RunPassed

(* for the trees of C23_FaultFreePlainTrees every run passes *)
C24_PlainTreesPass ==
    (NoKindClash /\ DistinctContents /\ outcome # "none") => RunPassed

(* two source files of one content in one directory, listed in another order *)
(* by each run: the destination alternates between two trees and every run   *)
(* fails verification                                                        *)
C24_OscillationCase ==
    /\ NoKindClash /\ outcome = "verify_failed" /\ hist.prev = "verify_failed"
    /\ dst.files = dst0.files /\ run.mismatches # <<>>

(* the whole-run function gives the tree the stepwise run reaches *)
RunAgreesWithSteps ==
    (Finished /\ faults = 0 /\ run.mode = "normal" /\ runs = 1) =>
        LET r == RunPhases(src, makedirs(dst0, <<>>).fs, run.src_index, run.dst_index, clock)
        IN  r.fs = dst /\ r.outcome = outcome

---------------------------------------------------------------------------
(* Properties of the indexer's error handling *)

(* the source files build_index accepts and cannot read *)
UnreadableAccepted ==
    {p \in Walked(src, EXCLUDE_DIRS) :
        /\ ReadFails(src[p].content)
        /\ should_exclude(SrcRoot \o p, SizeOf(src[p].content), EXCLUDE_DIRS,
                          EXCLUDE_EXTENSIONS, BackupManager_init(run.max_file_size_mb)) = NONE}

Readable(files) == [p \in {q \in DOMAIN files : ~ReadFails(files[q].content)} |-> files[p]]

SkippedFor(p) == {i \in DOMAIN run.skipped_files : run.skipped_files[i].path = p}

(* C26: indexer error handling.  Phase 1 ends with an index although a file  *)
(* could not be read; such a file is in neither map of the index and has     *)
(* exactly one entry in the skipped list, with the reading error as reason;  *)
(* the index is the one build_index gives for the tree without these files.  *)
C26_IndexerErrorHandling ==
    (pc # "index_src") =>
        /\ \A p \in UnreadableAccepted :
              /\ p \notin IndexPaths(run.src_index)
              /\ \A m \in DOMAIN run.src_index.by_md5 :
                    \A i \in DOMAIN run.src_index.by_md5[m] :
                        run.src_index.by_md5[m][i].relative_path # p
              /\ Cardinality(SkippedFor(p)) = 1
              /\ \A i \in SkippedFor(p) : run.skipped_files[i].reason = "Error reading file"
        /\ \E o \in WalkOrders(Walked(Readable(src), EXCLUDE_DIRS)) :
              run.src_index = build_index(SrcRoot, Readable(src), EXCLUDE_DIRS,
                                          EXCLUDE_EXTENSIONS,
                                          BackupManager_init(run.max_file_size_mb),
                                          <<>>, o).index

(* a file that cannot be read beside a file that is indexed *)
C26_Witness ==
    /\ pc # "index_src"
    /\ UnreadableAccepted # {}
    /\ IndexLen(run.src_index) > 0
    /\ Len(run.skipped_files) = 1

---------------------------------------------------------------------------
(* Properties of the deletes of a run against the source tree on disk *)

(* the destination files a run has removed *)
DeletedPaths == {trace[i].path : i \in {j \in TraceOps({"delete"}) : trace[j].ok}}

(* the source files on disk that Phase 1 left out of the source index *)
OmittedFromIndex == {p \in DOMAIN src : get_by_path(run.src_index, p) = <<>>}

(* C25: a run deletes a destination file only if the source tree on disk has *)
(* no file at that relative path; a source file left out of the index by a   *)
(* reading error or by the size cap keeps its destination copy.              *)
C25_DeleteOnlyAbsentFromSource ==
    \A p \in DeletedPaths : p \notin DOMAIN src

(* the deletes of paths that the source index holds no record of and the     *)
(* source tree holds no file at                                              *)
C25_DeleteOnlyUnindexed ==
    \A p \in DeletedPaths : get_by_path(run.src_index, p) = <<>>

(* the destination copy of an omitted source file has been deleted *)
C25_OmittedCopyDeleted ==
    \E p \in DeletedPaths : p \in OmittedFromIndex /\ p \in DOMAIN dst0.files

---------------------------------------------------------------------------
(* Properties of the Moves of one plan *)

MoveItems == {x \in PlanItems : x.action = "move"}

(* the plan's Moves in every order *)
MoveOrders == SeqsOf(MoveItems)

(* execute_sync_plan's Phase 2 over the Moves in the given order, from the   *)
(* destination as Phase 1 left it                                            *)
AfterMovesIn(order) ==
    MoveLoop([fs |-> dst, moved |-> 0, copied |-> 0, errors |-> <<>>], order, FALSE).fs

(* Phase 1 is done and no Move has run yet *)
BeforeMoves == pc = "moves" /\ pos = 1

(* C27: Moves are mutually independent.  No two Moves share a move_from, no  *)
(* Move's destination path is the move_from of a Move or a path of the       *)
(* destination index, and the destination after the move phase is the same   *)
(* for every order of the Moves.                                             *)
C27_MovesIndependent ==
    BeforeMoves =>
        /\ \A x, y \in MoveItems : x # y => x.move_from # y.move_from
        /\ \A x, y \in MoveItems : x.dst_rel_path # y.move_from
        /\ \A x \in MoveItems : x.dst_rel_path \notin IndexPaths(run.dst_index)
        /\ \A o1, o2 \in MoveOrders : AfterMovesIn(o1) = AfterMovesIn(o2)

(* the three facts about the paths of the Moves, without the conclusion *)
C27_MovePathsDisjoint ==
    /\ \A x, y \in MoveItems : x # y => x.move_from # y.move_from
    /\ \A x, y \in MoveItems : x.dst_rel_path # y.move_from
    /\ \A x \in MoveItems : x.dst_rel_path \notin IndexPaths(run.dst_index)

(* two Moves whose result depends on their order *)
C27_OrderMatters ==
    /\ BeforeMoves
    /\ Cardinality(MoveItems) = 2
    /\ \E o1, o2 \in MoveOrders : AfterMovesIn(o1) # AfterMovesIn(o2)

---------------------------------------------------------------------------
(* Properties of the candidate search *)

(* the path of the source record and the paths of the candidates *)
SearchedFor == all_files(run.src_index)[1].relative_path

CandidatePaths == IndexPaths(run.dst_index)

(* the directories of a path and the number of leading directories two paths share *)
DirsOfPath(p) == SubSeq(p, 1, Len(p) - 1)

SharedDirs(p, q) ==
    Cardinality({k \in 1..Len(DirsOfPath(p)) :
                    /\ k <= Len(DirsOfPath(q))
                    /\ \A j \in 1..k : DirsOfPath(p)[j] = DirsOfPath(q)[j]})

(* path distance as the sum of the directories of each path beyond the shared ones *)
DirsApart(p, q) ==
    (Len(DirsOfPath(p)) - SharedDirs(p, q)) + (Len(DirsOfPath(q)) - SharedDirs(p, q))

SameNamePaths == {c \in CandidatePaths : Basename(c) = Basename(SearchedFor)}

(* C28: move candidate tie-break.  The search returns None exactly when      *)
(* there is no candidate; otherwise a same-basename candidate of least path  *)
(* distance among the same-basename ones if there is one, else a candidate   *)
(* of least path distance among all; the distance counts the directories of  *)
(* each path beyond the shared leading ones, is symmetric, and is 0 exactly  *)
(* for two files of one directory.                                           *)
C28_CandidateTieBreak ==
    (pc = "chosen") =>
        /\ (run.plan = <<>>) <=> (CandidatePaths = {})
        /\ run.plan # <<>> =>
              LET pool == IF SameNamePaths # {} THEN SameNamePaths ELSE CandidatePaths
                  got == run.plan[1].move_from
              IN  /\ got \in pool
                  /\ \A c \in pool : DirsApart(SearchedFor, got) <= DirsApart(SearchedFor, c)
        /\ \A p, q \in CandidatePaths \cup {SearchedFor} :
              /\ _path_distance(p, q) = DirsApart(p, q)
              /\ _path_distance(p, q) = _path_distance(q, p)
              /\ (_path_distance(p, q) = 0) <=> (DirsOfPath(p) = DirsOfPath(q))

(* a same-basename candidate is taken although another candidate is nearer *)
C28_Witness ==
    /\ pc = "chosen"
    /\ run.plan # <<>>
    /\ run.plan[1].move_from \in SameNamePaths
    /\ \E c \in CandidatePaths \ SameNamePaths :
          DirsApart(SearchedFor, c) < DirsApart(SearchedFor, run.plan[1].move_from)
    /\ \E c \in SameNamePaths :
          DirsApart(SearchedFor, c) > DirsApart(SearchedFor, run.plan[1].move_from)

---------------------------------------------------------------------------
(* Properties of the cache write *)

SaveBegun == hist.kind = "save"

VerifyPassed == \E i \in TraceOps({"verify"}) : trace[i].ok

(* C29: atomic cache write.  From the moment the save begins, whether it     *)
(* ends or the process dies in it, the file at the cache path is what it was *)
(* before the save (the whole previous document, or no file) or the whole    *)
(* new document, never a part of one; a finished save leaves the new         *)
(* document and no temporary file; and the save begins only in a run whose   *)
(* verification passed.                                                      *)
C29_AtomicCacheWrite ==
    SaveBegun =>
        /\ \/ FileAt(dst, CachePath) = hist.cache_before
           \/ /\ FileAt(dst, CachePath) # <<>>
              /\ FileAt(dst, CachePath)[1].content = NewDocument(run.final_dst_index)
        /\ FileAt(dst, CachePath) # <<>> => FileAt(dst, CachePath)[1].content # Data(0)
        /\ outcome = "complete" =>
              /\ FileAt(dst, CachePath) # <<>>
              /\ FileAt(dst, CachePath)[1].content = NewDocument(run.final_dst_index)
              /\ FileAt(dst, TmpPath) = <<>>
        /\ run.success /\ VerifyPassed

(* the process died with half a document written and the previous cache is  *)
(* still whole                                                               *)
C29_Witness ==
    /\ SaveBegun
    /\ outcome = "crashed"
    /\ hist.cache_before # <<>>
    /\ FileAt(dst, CachePath) = hist.cache_before
    /\ FileAt(dst, TmpPath) # <<>>
    /\ FileAt(dst, TmpPath)[1].content = Data(0)

(* the save has replaced a previous document by the new one *)
C29_Replaced ==
    /\ SaveBegun
    /\ outcome = "complete"
    /\ hist.cache_before # <<>>
    /\ FileAt(dst, CachePath) # hist.cache_before

---------------------------------------------------------------------------
(* Properties of the cache round trip *)

(* the index that was saved, and what load_index_cache returns for the file *)
SavedIndex == run.final_dst_index

Reloaded == LoadedCache(dst)

(* the tree is as the saved index describes it: every record's file is there *)
(* with the record's size and mtime                                          *)
TreeUnchanged ==
    \A e \in IndexEntries(SavedIndex) :
        /\ e.path \in DOMAIN dst.files
        /\ SizeOf(dst.files[e.path].content) = e.size
        /\ dst.files[e.path].mtime = e.mtime

(* C30: cache round trip.  load_index_cache of the file save_index_cache     *)
(* wrote for an index returns a mapping whose keys are the index's paths and *)
(* whose entries carry each record's digest, mtime and size; build_index     *)
(* with it over the unchanged tree takes every record's digest from the      *)
(* mapping instead of hashing the file.                                      *)
C30_CacheRoundTrip ==
    (pc # "round_save") =>
        /\ Reloaded # <<>>
        /\ Reloaded[1].shape = "object"
        /\ {e.path : e \in Reloaded[1].entries} = IndexPaths(SavedIndex)
        /\ \A i \in DOMAIN SavedIndex.by_path :
              LET r == SavedIndex.by_path[i]
                  es == {e \in Reloaded[1].entries : e.path = r.relative_path}
              IN  /\ Cardinality(es) = 1
                  /\ \A e \in es : e.md5 = r.md5 /\ e.mtime = r.mtime /\ e.size = r.size
        /\ (outcome = "indexed" /\ TreeUnchanged) =>
              \A i \in DOMAIN SavedIndex.by_path :
                  get_by_path(run.dst_index, SavedIndex.by_path[i].relative_path)
                      = <<SavedIndex.by_path[i]>>

(* two records are taken from the cache, one of them with a digest that      *)
(* hashing the file would not give                                           *)
C30_Witness ==
    /\ outcome = "indexed"
    /\ TreeUnchanged
    /\ IndexLen(SavedIndex) = 2
    /\ \E i \in DOMAIN run.dst_index.by_path :
          LET r == run.dst_index.by_path[i]
          IN  /\ r.relative_path \in IndexPaths(SavedIndex)
              /\ r.md5 # compute_md5(dst.files[r.relative_path].content)

(* the saved index holds a record of the cache file itself: the save has     *)
(* changed that file and its digest is computed anew                         *)
C30_OwnRecordRehashed ==
    /\ outcome = "indexed"
    /\ CachePath \in IndexPaths(SavedIndex)
    /\ ~TreeUnchanged
    /\ get_by_path(run.dst_index, CachePath) # get_by_path(SavedIndex, CachePath)

---------------------------------------------------------------------------
(* Two runs over the destination an earlier run left, cache included; the    *)
(* source has been edited since, and an edit may keep a file's size and      *)
(* mtime.  Nothing but the runs writes to the destination.                   *)

StalePaths == {<<"a.txt">>, <<"c.txt">>}

InitStale ==
    /\ src \in TreesOver(StalePaths, Contents)
    /\ \E old \in TreesOver(StalePaths, Contents) :
          LET fs == [files |-> old, dirs |-> DirsOf(old), exists |-> TRUE]
          IN  dst = save_index_cache(fs, FinalIndex(fs), 1)
    /\ clock = 1
    /\ pc = "idle"
    /\ run = NoRun
    /\ pos = 1
    /\ outcome = "none"
    /\ trace = <<>>
    /\ dst0 = dst
    /\ hist = NoHist
    /\ runs = 0
    /\ edits = 0
    /\ faults = 0

(* run after run, MaxRuns of them *)
NextStale ==
    \/ \E so \in WalkOrders(Walked(src, EXCLUDE_DIRS)),
          do \in WalkOrders(Walked(dst.files, EXCLUDE_DIRS)) :
          StartRun("normal", so, do)
    \/ PrepareDirs
    \/ \E fault \in BOOLEAN : MoveStep(fault)
    \/ \E fault \in {"no", "clean", "partial"} : CopyStep(fault)
    \/ Verify
    \/ \E fault \in BOOLEAN : DeleteStep(fault)
    \/ Sweep
    \/ SaveCache

SpecStale == InitStale /\ [][NextStale]_vars

---------------------------------------------------------------------------
(* Properties of the cache across runs *)

(* Phase 2 has just built the destination index and nothing is written yet *)
JustIndexed ==
    \/ pc = "prepare"
    \/ pc = "idle" /\ outcome = "in_sync"

(* the records of the destination index whose digest is not the digest of    *)
(* the file on disk                                                          *)
WrongDigests ==
    {i \in DOMAIN run.dst_index.by_path :
        LET r == run.dst_index.by_path[i]
        IN  \/ r.relative_path \notin DOMAIN dst.files
            \/ r.md5 # compute_md5(dst.files[r.relative_path].content)}

(* C31: cache hits are truthful across runs.  In every run, also one that    *)
(* follows a run whose verification failed, every digest of the destination  *)
(* index, taken from the cache or computed, is the digest of the file on     *)
(* disk.                                                                     *)
C31_CacheHitsTruthful ==
    JustIndexed => WrongDigests = {}

(* the same for the first run after a save, and for every run that follows   *)
(* a run that passed verification                                            *)
C31_TruthfulAfterSave ==
    (JustIndexed /\ hist.prev \in {"none", "complete", "in_sync"}) => WrongDigests = {}

(* a run after a failed verification takes a digest of an overwritten file   *)
(* from the cache the failed run left                                        *)
C31_StaleHit ==
    /\ JustIndexed
    /\ runs = 2 /\ hist.prev = "verify_failed"
    /\ WrongDigests # {}

---------------------------------------------------------------------------
(* One call of backup_directory, an ordinary one or one with verify_only,    *)
(* over destinations that agree with the source, differ from it, or do not   *)
(* exist                                                                     *)

InitExits ==
    /\ src \in TreesOver(VerPaths, Contents)
    /\ \/ \E files \in TreesOver(VerPaths, Contents) :
             dst = [files |-> files, dirs |-> DirsOf(files), exists |-> TRUE]
       \/ dst = EmptyDst
    /\ clock = 1
    /\ pc = "idle"
    /\ run = NoRun
    /\ pos = 1
    /\ outcome = "none"
    /\ trace = <<>>
    /\ dst0 = dst
    /\ hist = NoHist
    /\ runs = 0
    /\ edits = 0
    /\ faults = 0

NextExits ==
    \/ /\ runs = 0
       /\ \E mode \in {"normal", "verify_only"},
             so \in WalkOrders(Walked(src, EXCLUDE_DIRS)),
             do \in WalkOrders(Walked(dst.files, EXCLUDE_DIRS)) :
             StartRun(mode, so, do)
    \/ PrepareDirs
    \/ \E fault \in BOOLEAN : MoveStep(fault)
    \/ \E fault \in {"no", "clean", "partial"} : CopyStep(fault)
    \/ Verify
    \/ \E fault \in BOOLEAN : DeleteStep(fault)
    \/ Sweep
    \/ SaveCache

SpecExits == InitExits /\ [][NextExits]_vars

---------------------------------------------------------------------------
(* Properties of the early exits *)

NothingToDo ==
    copies(run.plan) = <<>> /\ moves(run.plan) = <<>> /\ deletes(run.plan) = <<>>

(* C32: empty-plan and verify-only exits.  A run whose plan holds no Copy,   *)
(* Move or Delete ends at once: nothing is executed, verified, swept or      *)
(* saved, the destination is as the run found it (the root made if it was    *)
(* missing).  A verify_only call runs the verifier against the source index  *)
(* and ends: no destination index is built and the destination is as it was, *)
(* a missing root still missing.                                             *)
C32_EarlyExits ==
    /\ (runs = 1 /\ run.mode = "normal" /\ NothingToDo) =>
          /\ pc = "idle" /\ outcome = "in_sync"
          /\ trace = <<>>
          /\ dst = makedirs(dst0, <<>>).fs
          /\ FileAt(dst, CachePath) = FileAt(dst0, CachePath)
    /\ (runs = 1 /\ run.mode = "verify_only") =>
          /\ pc = "idle" /\ outcome = "verify_only"
          /\ trace = <<Event("verify", <<>>, run.success)>>
          /\ run.success = verify_mirror(run.src_index, dst0).ok
          /\ run.mismatches = verify_mirror(run.src_index, dst0).mismatches
          /\ run.dst_index = EmptyIndex /\ run.plan = <<>>
          /\ dst = dst0

(* verify_only against a destination that does not exist: the verifier has  *)
(* reported every source file and the root is still missing                  *)
C32_Witness ==
    /\ runs = 1 /\ run.mode = "verify_only"
    /\ ~dst0.exists /\ ~dst.exists
    /\ Len(run.mismatches) = 2

(* a run with an empty plan over a destination that holds the source's files *)
C32_InSyncCase ==
    /\ runs = 1 /\ run.mode = "normal" /\ NothingToDo
    /\ IndexLen(run.src_index) = 2 /\ Len(skips(run.plan)) = 2
    /\ outcome = "in_sync"

---------------------------------------------------------------------------
(* The sweep on its own: cleanup_empty_dirs over trees with empty            *)
(* directories, nested ones among them                                       *)

SweepDirs == {<<"x">>, <<"x", "y">>, <<"x", "y", "z">>, <<"w">>}

SweepFiles == {<<"a.txt">>, <<"x", "b.txt">>, <<"x", "y", "c.txt">>, <<"w", "d.txt">>}

InitSweep ==
    /\ \E files \in TreesOver(SweepFiles, {Data(1)}), extra \in SUBSET SweepDirs :
          dst = [files |-> files,
                 dirs |-> DirsOf(files) \cup extra \cup UNION {ParentDirs(d) : d \in extra},
                 exists |-> TRUE]
    /\ src = EmptyTree
    /\ clock = 1
    /\ pc = "sweep"
    /\ run = NoRun
    /\ pos = 1
    /\ outcome = "running"
    /\ trace = <<>>
    /\ dst0 = dst
    /\ hist = NoHist
    /\ runs = 1
    /\ edits = 0
    /\ faults = 0

NextSweep == Sweep

SpecSweep == InitSweep /\ [][NextSweep]_vars

---------------------------------------------------------------------------
(* Properties of the sweep *)

Swept == pc = "save"

HasEntry(fs, d) ==
    \/ \E p \in DOMAIN fs.files : Dirname(p) = d
    \/ \E e \in fs.dirs : Dirname(e) = d

(* C33: empty-directory sweep.  After cleanup_empty_dirs no directory below  *)
(* the root is empty, also none that became empty in the sweep; the root is  *)
(* still there, no file is removed, and the count is the number of           *)
(* directories removed.                                                      *)
C33_SweepLeavesNoEmptyDir ==
    Swept =>
        /\ \A d \in dst.dirs : HasEntry(dst, d)
        /\ dst.exists
        /\ dst.files = dst0.files
        /\ run.removed_dirs = Cardinality(dst0.dirs \ dst.dirs)

(* what the sweep does: it removes the directories that were empty before    *)
(* it began, and only those                                                  *)
C33_RemovesEmptyAtStart ==
    Swept =>
        /\ dst.dirs = {d \in dst0.dirs : HasEntry(dst0, d)}
        /\ dst.exists
        /\ dst.files = dst0.files
        /\ run.removed_dirs = Cardinality(dst0.dirs \ dst.dirs)

(* a directory whose only entry was an empty directory is left behind empty *)
C33_EmptiedDirLeft ==
    /\ Swept
    /\ \E d \in dst.dirs : ~HasEntry(dst, d) /\ HasEntry(dst0, d)


---------------------------------------------------------------------------
(* The exclusion filter on its own: build_index over trees that hold a file  *)
(* named like an excluded directory, files below an excluded directory,      *)
(* files with an excluded extension in either case and files over the size   *)
(* bound, under a root whose own path has or has not an excluded name        *)

FilterRoots == {SrcRoot, <<"home", "build">>}

FilterPaths ==
    {<<"a.txt">>, <<"X.LOG">>, <<"build">>, <<"dist", "a.txt">>, <<"sub", "x.log">>}

FilterSizes == {1, MegaByte + 1}

FilterBounds == {1, MAX_FILE_SIZE_MB}

FilterTrees == TreesOver(FilterPaths, {Blob(n) : n \in FilterSizes})

InitFilter ==
    /\ src \in FilterTrees
    /\ dst = EmptyDst
    /\ \E root \in FilterRoots, m \in FilterBounds :
          run = [NoRun EXCEPT !.src_root = root, !.max_file_size_mb = m]
    /\ pc = "index_src"
    /\ dst0 = dst
    /\ clock = 1
    /\ pos = 1
    /\ outcome = "none"
    /\ trace = <<>>
    /\ hist = NoHist
    /\ runs = 0
    /\ edits = 0
    /\ faults = 0

(* build_index(src, ..., max_file_size_mb) with the default exclusion lists *)
FilterIndex(order) ==
    /\ pc = "index_src"
    /\ order \in WalkOrders(Walked(src, EXCLUDE_DIRS))
    /\ LET built == build_index(run.src_root, src, EXCLUDE_DIRS, EXCLUDE_EXTENSIONS,
                                run.max_file_size_mb, <<>>, order)
       IN  run' = [run EXCEPT !.src_index = built.index, !.skipped_files = built.skipped]
    /\ pc' = "idle"
    /\ outcome' = "indexed"
    /\ UNCHANGED <<src, dst, clock, pos, trace, dst0, hist, runs, edits, faults>>

NextFilter == \E order \in WalkOrders(Walked(src, EXCLUDE_DIRS)) : FilterIndex(order)

SpecFilter == InitFilter /\ [][NextFilter]_vars

---------------------------------------------------------------------------
(* Properties of the exclusion filter *)

Filtered == pc = "idle" /\ outcome = "indexed"

(* the three rules as the filter states them, each on its own *)
DirRule(abs_path) == \E i \in DOMAIN abs_path : abs_path[i] \in EXCLUDE_DIRS

ExtRule(abs_path) ==
    \E ext \in EXCLUDE_EXTENSIONS :
        EndsWith(LowerSeq(NameChars(Basename(abs_path))), LowerSeq(ext))

SizeRule(size, bound) == size > bound * MegaByte

(* the reason of the first rule that matches *)
FirstReason(abs_path, size, bound) ==
    IF DirRule(abs_path) THEN "Excluded directory"
    ELSE IF ExtRule(abs_path) THEN "Excluded extension"
    ELSE IF SizeRule(size, bound) THEN "File size"
    ELSE NONE

SkippedOf(p) ==
    {run.skipped_files[i].reason :
        i \in {j \in DOMAIN run.skipped_files : run.skipped_files[j].path = p}}

(* every visited file is skipped with the reason of its first matching rule  *)
(* or, when no rule matches, indexed                                         *)
RulesInOrder ==
    \A p \in Walked(src, EXCLUDE_DIRS) :
        LET reason == FirstReason(run.src_root \o p, SizeOf(src[p].content),
                                  run.max_file_size_mb)
        IN  /\ SkippedOf(p) = IF reason = NONE THEN {} ELSE {reason}
            /\ (p \in IndexPaths(run.src_index)) = (reason = NONE)

Reported == IndexPaths(run.src_index) \cup {p \in DOMAIN src : SkippedOf(p) # {}}

(* the directories a file lies below, by name *)
DirsAbove(abs_path) == {abs_path[i] : i \in 1..(Len(abs_path) - 1)}

(* C34: exclusion filter.  should_exclude gives the reason of the first rule *)
(* that matches (directory name, then extension, then size) and accepts      *)
(* otherwise, and no file below an excluded directory appears in the index   *)
(* or in the skipped list.                                                   *)
C34_FilterRules ==
    Filtered =>
        /\ RulesInOrder
        /\ \A p \in Reported : DirsAbove(run.src_root \o p) \cap EXCLUDE_DIRS = {}

(* what holds: the rules in their order, and nothing reported from below an  *)
(* excluded directory of the tree under the root                             *)
C34_PrunedUnderRoot ==
    Filtered =>
        /\ RulesInOrder
        /\ \A p \in Reported : DirsAbove(p) \cap EXCLUDE_DIRS = {}

(* a root with an excluded name: its files are in the skipped list *)
C34_RootExcluded ==
    /\ Filtered
    /\ \E p \in Reported : DirsAbove(run.src_root \o p) \cap EXCLUDE_DIRS # {}

(* a file that matches the extension rule and the size rule is skipped for   *)
(* its extension                                                             *)
C34_TwoRulesMatch ==
    /\ Filtered
    /\ \E p \in DOMAIN src :
          /\ SkippedOf(p) = {"Excluded extension"}
          /\ SizeRule(SizeOf(src[p].content), run.max_file_size_mb)

---------------------------------------------------------------------------
(* FileIndex on its own: any sequence of add calls, with records of the same *)
(* path, of the same digest, and the same record twice                       *)

MaxAdds == 3

AddPaths == {<<"a.txt">>, <<"b.txt">>}

AddRecords ==
    {FileInfo(p, compute_md5(c), t, SizeOf(c)) : p \in AddPaths, c \in Contents, t \in 0..1}

InitAdds ==
    /\ src = EmptyTree
    /\ dst = EmptyDst
    /\ run = NoRun
    /\ pc = "adding"
    /\ dst0 = dst
    /\ clock = 1
    /\ pos = 1
    /\ outcome = "none"
    /\ trace = <<>>
    /\ hist = NoHist
    /\ runs = 0
    /\ edits = 0
    /\ faults = 0

(* index.add(file_info); trace keeps the records given so far *)
Add(fi) ==
    /\ pc = "adding"
    /\ Len(trace) < MaxAdds
    /\ run' = [run EXCEPT !.src_index = IndexAdd(@, fi)]
    /\ trace' = Append(trace, fi)
    /\ UNCHANGED <<src, dst, clock, pc, pos, outcome, dst0, hist, runs, edits, faults>>

NextAdds == \E fi \in AddRecords : Add(fi)

SpecAdds == InitAdds /\ [][NextAdds]_vars

---------------------------------------------------------------------------
(* Properties of FileIndex *)

(* the number of places of by_md5 that hold the record r *)
RECURSIVE Occurrences(_, _, _)
Occurrences(idx, r, digests) ==
    IF digests = {} THEN 0
    ELSE LET m == CHOOSE x \in digests : TRUE
         IN  Cardinality({i \in DOMAIN idx.by_md5[m] : idx.by_md5[m][i] = r})
             + Occurrences(idx, r, digests \ {m})

(* the number of records across all by_md5 sequences *)
RECURSIVE Md5Total(_, _)
Md5Total(idx, digests) ==
    IF digests = {} THEN 0
    ELSE LET m == CHOOSE x \in digests : TRUE
         IN  Len(idx.by_md5[m]) + Md5Total(idx, digests \ {m})

DualKey(idx) ==
    /\ \A i \in DOMAIN idx.by_path :
          Occurrences(idx, idx.by_path[i], DOMAIN idx.by_md5) = 1
    /\ \A m \in DOMAIN idx.by_md5 : \A j \in DOMAIN idx.by_md5[m] :
          get_by_path(idx, idx.by_md5[m][j].relative_path) = <<idx.by_md5[m][j]>>
    /\ IndexLen(idx) = Md5Total(idx, DOMAIN idx.by_md5)

(* C35: index dual-key invariant.  After any sequence of add calls, two      *)
(* records of one path included, every record of by_path is in exactly one   *)
(* by_md5 sequence, every record of a by_md5 sequence is the by_path record  *)
(* of its path, and len(index) is the number of records across by_md5.       *)
C35_DualKey == pc = "adding" => DualKey(run.src_index)

DistinctPaths ==
    \A i, j \in DOMAIN trace : i # j => trace[i].relative_path # trace[j].relative_path

(* what holds: the invariant after adds of pairwise different paths *)
C35_DualKeyDistinctPaths == (pc = "adding" /\ DistinctPaths) => DualKey(run.src_index)

(* a path added twice with different digests: the first record stays in      *)
(* by_md5 and is no longer the by_path record                                *)
C35_StaleRecord ==
    /\ pc = "adding"
    /\ \E m \in DOMAIN run.src_index.by_md5 : \E j \in DOMAIN run.src_index.by_md5[m] :
          LET r == run.src_index.by_md5[m][j]
          IN  /\ get_by_path(run.src_index, r.relative_path) # <<r>>
              /\ IndexLen(run.src_index) < Md5Total(run.src_index, DOMAIN run.src_index.by_md5)

---------------------------------------------------------------------------
(* The project classifier on its own: detect_project_roots over indexes that *)
(* hold src/App.tsx at several depths, a directory whose name ends in "src", *)
(* and a single-name marker; then get_project_root for one path              *)

RootPaths ==
    {<<"src", "App.tsx">>, <<"mysrc", "App.tsx">>,
     <<"app1", "src", "App.tsx">>, <<"app1", "mysrc", "App.tsx">>,
     <<"app1", "package.json">>, <<"app1", "app2", "src", "App.tsx">>}

RootRecords(ps) ==
    CHOOSE s \in SeqsOf({FileInfo(p, compute_md5(Data(1)), 0, SizeOf(Data(1))) : p \in ps}) : TRUE

InitRoots ==
    /\ \E ps \in SUBSET RootPaths : run = [NoRun EXCEPT !.src_index = IndexOf(RootRecords(ps))]
    /\ src = EmptyTree
    /\ dst = EmptyDst
    /\ pc = "detect"
    /\ dst0 = dst
    /\ clock = 1
    /\ pos = 1
    /\ outcome = "none"
    /\ trace = <<>>
    /\ hist = NoHist
    /\ runs = 0
    /\ edits = 0
    /\ faults = 0

(* project_roots = detect_project_roots(src_index), kept as trace[1] *)
DetectRoots ==
    /\ pc = "detect"
    /\ trace' = <<detect_project_roots(run.src_index)>>
    /\ pc' = "lookup"
    /\ UNCHANGED <<src, dst, clock, run, pos, outcome, dst0, hist, runs, edits, faults>>

(* get_project_root(file_path, project_roots), the answer kept in hist.to *)
LookupRoot(file_path) ==
    /\ pc = "lookup"
    /\ hist' = [hist EXCEPT !.kind = "lookup", !.from = file_path,
                            !.to = get_project_root(file_path, trace[1])]
    /\ pc' = "idle"
    /\ UNCHANGED <<src, dst, clock, run, pos, outcome, trace, dst0, runs, edits, faults>>

NextRoots ==
    \/ DetectRoots
    \/ \E file_path \in RootPaths : LookupRoot(file_path)

SpecRoots == InitRoots /\ [][NextRoots]_vars

---------------------------------------------------------------------------
(* Properties of the project classifier *)

Detected == pc \in {"lookup", "idle"}

MultiSegment(kind) == {m \in PROJECT_TEMPLATES[kind].marker_files : Len(m) > 1}

SingleName(kind) == {m \in PROJECT_TEMPLATES[kind].marker_files : Len(m) = 1}

(* a registered root has, for its kind, a marker file at root/marker *)
MarkerAtRoot(r) ==
    \E m \in PROJECT_TEMPLATES[r.kind].marker_files : r.root \o m \in IndexPaths(run.src_index)

(* the answer of the lookup is the longest registered proper ancestor *)
LongestAncestor ==
    LET anc == {r \in RootsOf(trace[1]) : IsPrefix(r, hist.from) /\ Len(r) < Len(hist.from)}
    IN  IF anc = {} THEN hist.to = <<>>
        ELSE /\ hist.to # <<>>
             /\ hist.to[1] \in anc
             /\ \A r \in anc : Len(r) <= Len(hist.to[1])

(* C36: project roots of multi-segment markers.  A root registered for a     *)
(* kind because of a multi-segment marker m has the path root/m in the       *)
(* source index (the marker matches whole path components), and              *)
(* get_project_root gives the longest registered root that is a proper       *)
(* ancestor of the path, or None.                                            *)
C36_MarkerRoots ==
    /\ Detected => \A r \in trace[1] : SingleName(r.kind) = {} => MarkerAtRoot(r)
    /\ pc = "idle" => LongestAncestor

(* what holds: the lookup, and for every registered root a file below it     *)
(* whose path string ends with a marker of the kind                          *)
C36_StringSuffix ==
    /\ Detected =>
          \A r \in trace[1] :
              \E p \in IndexPaths(run.src_index), m \in PROJECT_TEMPLATES[r.kind].marker_files :
                  MarkerMatches(p, m) /\ MarkerRoot(p, m) = r.root
    /\ pc = "idle" => LongestAncestor

(* mysrc/App.tsx alone registers a react project where no src/App.tsx is *)
C36_PartialNameMatch ==
    /\ Detected
    /\ \E r \in trace[1] : r.kind = "react" /\ ~MarkerAtRoot(r)

(* a lookup below two nested registered roots *)
C36_NestedRoots ==
    /\ pc = "idle"
    /\ hist.to # <<>>
    /\ \E r \in RootsOf(trace[1]) : IsPrefix(r, hist.from) /\ Len(r) < Len(hist.to[1])

---------------------------------------------------------------------------
(* main.py: the command line.  Each invocation is a process: the import of   *)
(* config.py from the program directory, one config command, the exit.  src  *)
(* is the program directory, dst the working directory when it is another    *)
(* one; trace holds the globals of the config module while a process lives,  *)
(* hist.cache_before what the import gave them.                              *)

ConfigPath == <<"config.py">>

(* a Python source file as the set of its module-level assignments *)
ConfigDoc(assignments) == [kind |-> "python", val |-> 0, files |-> assignments]

Assign(name, value) == [name |-> name, value |-> value]

(* config.py as shipped *)
ShippedConfig ==
    ConfigDoc({Assign("MAX_FILE_SIZE_MB", MAX_FILE_SIZE_MB),
               Assign("EXCLUDE_DIRS", EXCLUDE_DIRS),
               Assign("EXCLUDE_EXTENSIONS", EXCLUDE_EXTENSIONS),
               Assign("PROJECT_TEMPLATES", PROJECT_TEMPLATES)})

Assigned(doc, name) == {a.value : a \in {b \in doc.files : b.name = name}}

ConfigNames(doc) == {a.name : a \in doc.files}

(* the names the modules import from config at startup *)
ImportedNames == {"MAX_FILE_SIZE_MB", "EXCLUDE_DIRS", "EXCLUDE_EXTENSIONS", "PROJECT_TEMPLATES"}

(* the globals of the config module after its import *)
Globals(doc) == [n \in ConfigNames(doc) |-> CHOOSE v \in Assigned(doc, n) : TRUE]

(* --add-exclude / --remove-exclude arguments: a listed name, an unlisted one *)
ExcludeArgs == {"node_modules", "dist", "target"}

ConfigArgs ==
    [list_excludes : BOOLEAN,
     add_exclude : {<<>>} \cup {<<d>> : d \in ExcludeArgs},
     remove_exclude : {<<>>} \cup {<<d>> : d \in ExcludeArgs}]

WorkingDirs == {"program_dir", "elsewhere"}

InitConfig ==
    /\ src = (ConfigPath :> File(ShippedConfig, 0))
    /\ dst = [files |-> EmptyTree, dirs |-> {}, exists |-> TRUE]
    /\ pc = "shell"
    /\ run = NoRun
    /\ dst0 = dst
    /\ clock = 1
    /\ pos = 1
    /\ outcome = "none"
    /\ trace = <<>>
    /\ hist = NoHist
    /\ runs = 0
    /\ edits = 0
    /\ faults = 0

(* python main.py ...: the imports at the top of main.py and of the modules  *)
(* it imports; a name config.py does not define raises ImportError           *)
Startup ==
    /\ pc = "shell"
    /\ LET doc == src[ConfigPath].content
       IN  IF ImportedNames \subseteq ConfigNames(doc)
           THEN /\ trace' = <<Globals(doc)>>
                /\ hist' = [NoHist EXCEPT !.kind = "import", !.cache_before = <<Globals(doc)>>]
                /\ pc' = "cli"
                /\ outcome' = "running"
           ELSE /\ trace' = <<>>
                /\ hist' = [NoHist EXCEPT !.kind = "import"]
                /\ pc' = "shell"
                /\ outcome' = "crashed"
    /\ UNCHANGED <<src, dst, clock, run, pos, dst0, runs, edits, faults>>

(* BackupCLI._save_config: open('config.py', 'w') in the working directory,  *)
(* the two exclusion lists sorted and nothing else                           *)
SavedConfig(globals) ==
    ConfigDoc({Assign("EXCLUDE_DIRS", globals.EXCLUDE_DIRS),
               Assign("EXCLUDE_EXTENSIONS", globals.EXCLUDE_EXTENSIONS)})

(* the two directories after _save_config in working directory cwd *)
SaveConfig(dirs, cwd, globals) ==
    IF cwd = "program_dir"
    THEN [program |-> PutFile(dirs.program, ConfigPath, File(SavedConfig(globals), 0)),
          working |-> dirs.working]
    ELSE [program |-> dirs.program,
          working |-> PutFile(dirs.working, ConfigPath, File(SavedConfig(globals), 0))]

(* the add_exclude branch of update_config *)
AddExclude(st, cwd, arg) ==
    IF arg = <<>> \/ arg[1] \in st.globals.EXCLUDE_DIRS THEN st
    ELSE LET g == [st.globals EXCEPT !.EXCLUDE_DIRS = @ \cup {arg[1]}]
         IN  [globals |-> g, dirs |-> SaveConfig(st.dirs, cwd, g)]

(* the remove_exclude branch of update_config *)
RemoveExclude(st, cwd, arg) ==
    IF arg = <<>> \/ arg[1] \notin st.globals.EXCLUDE_DIRS THEN st
    ELSE LET g == [st.globals EXCEPT !.EXCLUDE_DIRS = @ \ {arg[1]}]
         IN  [globals |-> g, dirs |-> SaveConfig(st.dirs, cwd, g)]

(* BackupCLI.update_config(args) *)
update_config(st, cwd, args) ==
    IF args.list_excludes THEN st
    ELSE RemoveExclude(AddExclude(st, cwd, args.add_exclude), cwd, args.remove_exclude)

(* python main.py config ... in the working directory cwd *)
ConfigCommand(args, cwd) ==
    /\ pc = "cli"
    /\ LET after == update_config([globals |-> trace[1],
                                   dirs |-> [program |-> src, working |-> dst.files]], cwd, args)
       IN  /\ trace' = <<after.globals>>
           /\ src' = after.dirs.program
           /\ dst' = [dst EXCEPT !.files = after.dirs.working]
    /\ hist' = [hist EXCEPT !.kind = IF args.list_excludes THEN "list" ELSE "update"]
    /\ pc' = "done"
    /\ UNCHANGED <<clock, run, pos, outcome, dst0, runs, edits, faults>>

(* the process ends *)
ExitCli ==
    /\ pc = "done"
    /\ trace' = <<>>
    /\ pc' = "shell"
    /\ outcome' = "exited"
    /\ UNCHANGED <<src, dst, clock, run, pos, dst0, hist, runs, edits, faults>>

NextConfig ==
    \/ Startup
    \/ \E args \in ConfigArgs, cwd \in WorkingDirs : ConfigCommand(args, cwd)
    \/ ExitCli

SpecConfig == InitConfig /\ [][NextConfig]_vars

---------------------------------------------------------------------------
(* Properties of the configuration *)

Alive == pc \in {"cli", "done"}

Persisted == src[ConfigPath].content

(* C37: static configuration.  No command changes the exclusion lists or the *)
(* project catalog of the running program, and the persisted configuration   *)
(* keeps MAX_FILE_SIZE_MB and PROJECT_TEMPLATES across any sequence of       *)
(* commands.                                                                 *)
C37_ConfigReadOnly ==
    /\ Alive => trace[1] = hist.cache_before[1]
    /\ Assigned(Persisted, "MAX_FILE_SIZE_MB") = {MAX_FILE_SIZE_MB}
    /\ Assigned(Persisted, "PROJECT_TEMPLATES") = {PROJECT_TEMPLATES}

(* what holds: a command never changes the extension list, the size bound or *)
(* the catalog of the running program, --list-excludes changes nothing, and  *)
(* the persisted exclusion lists are those of the last save or as shipped    *)
C37_OnlyDirsChange ==
    /\ Alive =>
          /\ \A n \in ImportedNames \ {"EXCLUDE_DIRS"} : trace[1][n] = hist.cache_before[1][n]
          /\ hist.kind = "list" => trace[1] = hist.cache_before[1]
    /\ Assigned(Persisted, "EXCLUDE_EXTENSIONS") = {EXCLUDE_EXTENSIONS}
    /\ Cardinality(Assigned(Persisted, "EXCLUDE_DIRS")) = 1

(* after --add-exclude in the program directory config.py defines neither    *)
(* the size bound nor the catalog, and the next start fails on its imports   *)
C37_CatalogDropped ==
    /\ outcome = "crashed"
    /\ "PROJECT_TEMPLATES" \notin ConfigNames(Persisted)
    /\ "MAX_FILE_SIZE_MB" \notin ConfigNames(Persisted)

(* the exclusion list of the running program changed *)
C37_ListMutated ==
    /\ pc = "done"
    /\ trace[1].EXCLUDE_DIRS # hist.cache_before[1].EXCLUDE_DIRS

---------------------------------------------------------------------------
(* Properties of the executor's counters *)

(* execute_sync_plan has returned: the verifier has run on its result *)
ExecReturned == \E i \in DOMAIN trace : trace[i].op = "verify"

(* execute_deletes has returned *)
DeletesReturned == pc \in {"sweep", "save"} \/ \E i \in DOMAIN trace : trace[i].op = "sweep"

(* C38: executor counters.  After execute_sync_plan returns, moved + copied  *)
(* + len(errors) is the number of Move and Copy items, moved and copied are  *)
(* at most the numbers of their items and skipped is the number of Skip      *)
(* items, whatever failed; execute_deletes gives deleted + len(errors) equal *)
(* to the number of Delete items.                                            *)
C38_ExecutorCounters ==
    /\ ExecReturned =>
          /\ run.moved + run.copied + Len(run.errors)
                = Len(moves(run.plan)) + Len(copies(run.plan))
          /\ run.moved <= Len(moves(run.plan))
          /\ run.copied <= Len(copies(run.plan))
          /\ run.skipped = Len(skips(run.plan))
    /\ DeletesReturned =>
          run.deleted + Len(run.del_errors) = Len(deletes(run.plan))

(* a plan with a Move, a Copy and a Skip of which one operation failed *)
C38_Witness ==
    /\ ExecReturned
    /\ Len(run.errors) > 0
    /\ run.moved + run.copied > 0
    /\ run.skipped > 0

(* a delete that failed and one that did not *)
C38_DeleteFailed ==
    /\ DeletesReturned
    /\ Len(run.del_errors) > 0

(* the same counters after the executor functions ran with dry_run set:     *)
(* every item is counted and no error is recorded                           *)
C38_DryCounters ==
    outcome = "dry_executed" =>
        /\ run.moved = Len(moves(run.plan)) /\ run.copied = Len(copies(run.plan))
        /\ run.errors = <<>> /\ run.del_errors = <<>>
        /\ run.skipped = Len(skips(run.plan))
        /\ run.deleted = Len(deletes(run.plan))
====
